---- MODULE Spec2Model ----
(***************************************************************************)
(* A model of the TriplClust reference implementation (cdalitz/triplclust).*)
(*                                                                         *)
(* The program is a batch pipeline of pure functions over a point cloud.   *)
(* Each function of the pipeline is modelled by the actions of one         *)
(* specification whose initial states draw the function's inputs from      *)
(* bounded sets:                                                           *)
(*   SmoothSpec   smoothen_cloud            (pointcloud.cpp)               *)
(*   TripletSpec  generate_triplets         (triplet.cpp)                  *)
(*   MetricSpec   ScaleTripletMetric::()    (triplet.cpp)                  *)
(*                                                                         *)
(* Arithmetic.  The program computes in IEEE-754 binary64.  The model      *)
(* computes in binary floating point with round-to-nearest-even and a      *)
(* mantissa of MantBits bits (a bound of the model) and an unbounded       *)
(* exponent; a division by zero yields NaN, which every operation          *)
(* propagates and every comparison rejects.                                *)
(***************************************************************************)
EXTENDS Integers, Sequences, FiniteSets, TLC

VARIABLES
    pc,            \* the position of the function under way
    cloud,         \* the cloud the function reads
    tree,          \* the nodes the function's kd-tree was built from
    \* smoothen_cloud
    result_cloud,  \* the result cloud
    result_pre,    \* the result cloud as the caller passed it
    smooth_r,      \* the smoothing radius
    smooth_i,      \* the loop index
    queries,       \* the number of neighbour queries made so far
    \* generate_triplets
    triplets,      \* the output vector
    trip_k,        \* the number of neighbours
    trip_n,        \* the number of best candidates kept for a midpoint
    trip_a,        \* the largest error of a candidate
    point_index_b, \* the loop index: the midpoint
    candidates,    \* triplet_candidates of every midpoint done, before the sort
    \* ScaleTripletMetric
    metric_scale,  \* the scale of the metric object
    metric_lhs,    \* a triplet
    metric_rhs,    \* another triplet
    metric_lr,     \* what operator()(metric_lhs, metric_rhs) returned
    metric_rl,     \* what operator()(metric_rhs, metric_lhs) returned
    \* compute_hc and the steps of main after it
    opt_params,    \* the options of the run
    cl_group,      \* the cluster group
    frame          \* the arguments and local variables of the function under way

smoothVars == <<result_cloud, result_pre, smooth_r, smooth_i, queries>>

tripletVars == <<triplets, trip_k, trip_n, trip_a, point_index_b, candidates>>

metricVars == <<metric_scale, metric_lhs, metric_rhs, metric_lr, metric_rl>>

clusterVars == <<opt_params, cl_group, frame>>

vars == <<pc, cloud, tree, smoothVars, tripletVars, metricVars, clusterVars>>

(***************************************************************************)
(* Bounds of the model.                                                    *)
(***************************************************************************)
MantBits == 4

(***************************************************************************)
(* Floating point: a value is <<m, e>> and denotes m * 2^e, with m = 0     *)
(* (and e = 0) or 2^(MantBits-1) <= |m| < 2^MantBits.                      *)
(***************************************************************************)
Pow2(n) == 2 ^ n

\* the number of binary digits of n >= 0, four digits at a time
RECURSIVE BitLen(_)
BitLen(n) ==
    IF n < 16
    THEN IF n < 4 THEN (IF n < 2 THEN n ELSE 2) ELSE (IF n < 8 THEN 3 ELSE 4)
    ELSE 4 + BitLen(n \div 16)

Abs(n) == IF n < 0 THEN -n ELSE n

Sgn(n) == IF n < 0 THEN -1 ELSE 1

Zero == <<0, 0>>

NaN == <<0, 1>>

IsNaN(x) == x = NaN

\* Round s * N * 2^e (N >= 0; sticky: the exact value lies strictly above
\* N * 2^e and below (N + 1) * 2^e) to the nearest value, ties to even.
RoundLen(s, N, e, sticky, L) ==
    IF N = 0 THEN Zero
    ELSE IF L <= MantBits
         THEN <<s * N * Pow2(MantBits - L), e - (MantBits - L)>>
         ELSE LET sh   == L - MantBits
                  q    == N \div Pow2(sh)
                  rem  == N % Pow2(sh)
                  half == Pow2(sh - 1)
                  up   == \/ rem > half
                          \/ rem = half /\ (sticky \/ q % 2 = 1)
                  q2   == IF up THEN q + 1 ELSE q
              IN  IF q2 = Pow2(MantBits)
                  THEN <<s * Pow2(MantBits - 1), e + sh + 1>>
                  ELSE <<s * q2, e + sh>>

Round(s, N, e, sticky) == RoundLen(s, N, e, sticky, BitLen(N))

FromInt(n) == Round(Sgn(n), Abs(n), 0, FALSE)

One == FromInt(1)

FNeg(x) == IF IsNaN(x) THEN NaN ELSE <<-x[1], x[2]>>

FAdd(x, y) ==
    IF IsNaN(x) \/ IsNaN(y) THEN NaN
    ELSE IF x[1] = 0 THEN y
    ELSE IF y[1] = 0 THEN x
    \* an operand below an eighth of the other's last place changes nothing
    ELSE IF x[2] - y[2] > MantBits + 2 THEN x
    ELSE IF y[2] - x[2] > MantBits + 2 THEN y
    ELSE LET em == IF x[2] < y[2] THEN x[2] ELSE y[2]
             N  == x[1] * Pow2(x[2] - em) + y[1] * Pow2(y[2] - em)
         IN  Round(Sgn(N), Abs(N), em, FALSE)

FSub(x, y) == FAdd(x, FNeg(y))

FMul(x, y) ==
    IF IsNaN(x) \/ IsNaN(y) THEN NaN
    ELSE LET N == Abs(x[1]) * Abs(y[1])
         IN  \* the product of two full mantissas has 2 * MantBits digits or
             \* one less
             RoundLen(Sgn(x[1]) * Sgn(y[1]), N, x[2] + y[2], FALSE,
                      IF N < Pow2(2 * MantBits - 1) THEN 2 * MantBits - 1
                      ELSE 2 * MantBits)

FDiv(x, y) ==
    IF IsNaN(x) \/ IsNaN(y) \/ y[1] = 0 THEN NaN
    ELSE LET n == Abs(x[1]) * Pow2(MantBits + 2)
             d == Abs(y[1])
             q == n \div d
         IN  \* the quotient of two full mantissas, scaled, has MantBits + 2
             \* digits or one more
             RoundLen(Sgn(x[1]) * Sgn(y[1]), q,
                      x[2] - y[2] - (MantBits + 2), n % d # 0,
                      IF q < Pow2(MantBits + 2) THEN MantBits + 2
                      ELSE MantBits + 3)

\* floor(sqrt(M)), bit by bit from bit b down.
RECURSIVE ISqrt(_, _, _)
ISqrt(M, r, b) ==
    IF b < 0 THEN r
    ELSE LET t == r + Pow2(b) IN
         ISqrt(M, IF t * t <= M THEN t ELSE r, b - 1)

FSqrt(x) ==
    IF IsNaN(x) \/ x[1] < 0 THEN NaN
    ELSE IF x[1] = 0 THEN Zero
    ELSE LET k == IF (x[2] - (MantBits + 1)) % 2 = 0
                  THEN MantBits + 1 ELSE MantBits + 2
             M == x[1] * Pow2(k)
             r == ISqrt(M, 0, MantBits + 1)
         IN  \* the root of 2 * MantBits + 1 or + 2 digits has MantBits + 1
             RoundLen(1, r, (x[2] - k) \div 2, r * r # M, MantBits + 1)

FAbs(x) == IF IsNaN(x) THEN NaN ELSE <<Abs(x[1]), x[2]>>

\* x < y; false when either is NaN.
FLt(x, y) ==
    IF IsNaN(x) \/ IsNaN(y) THEN FALSE
    ELSE IF x[1] = 0 THEN y[1] > 0
    ELSE IF y[1] = 0 THEN x[1] < 0
    ELSE IF Sgn(x[1]) # Sgn(y[1]) THEN x[1] < 0
    ELSE IF x[2] = y[2] THEN x[1] < y[1]
    ELSE IF x[1] > 0 THEN x[2] < y[2] ELSE x[2] > y[2]

FEq(x, y) == ~IsNaN(x) /\ ~IsNaN(y) /\ x = y

FLe(x, y) == FLt(x, y) \/ FEq(x, y)

FGt(x, y) == FLt(y, x)

FMax(x, y) == IF FLt(x, y) THEN y ELSE x

Two == FromInt(2)

(***************************************************************************)
(* Points and clouds (pointcloud.h).  A point is a record of its three     *)
(* coordinates, its original index and its set of cluster ids; a cloud is  *)
(* the vector of its points (pts, with the vector's capacity cap) and the  *)
(* two flags.  Vectors are 1-based here; index values are the program's.   *)
(***************************************************************************)
Vec(x, y, z) == [x |-> x, y |-> y, z |-> z]

\* Point(double x, double y, double z, size_t index), cluster_ids empty
MkPoint(x, y, z, index) ==
    [x |-> x, y |-> y, z |-> z, index |-> index, cluster_ids |-> {}]

as_vector(p) == Vec(p.x, p.y, p.z)

VAdd(p, q) == Vec(FAdd(p.x, q.x), FAdd(p.y, q.y), FAdd(p.z, q.z))

VSub(p, q) == Vec(FSub(p.x, q.x), FSub(p.y, q.y), FSub(p.z, q.z))

\* scalar product
Dot(p, q) == FAdd(FAdd(FMul(p.x, q.x), FMul(p.y, q.y)), FMul(p.z, q.z))

squared_norm(p) == FAdd(FAdd(FMul(p.x, p.x), FMul(p.y, p.y)), FMul(p.z, p.z))

norm(p) == FSqrt(squared_norm(p))

\* scalar division
VDiv(p, c) == Vec(FDiv(p.x, c), FDiv(p.y, c), FDiv(p.z, c))

\* scalar multiplication
VScale(c, p) == Vec(FMul(c, p.x), FMul(c, p.y), FMul(c, p.z))

\* Point::operator= copies the coordinates only: index and cluster_ids of
\* the assigned-to point stay what they were.
PointAssign(this, other) ==
    [this EXCEPT !.x = other.x, !.y = other.y, !.z = other.z]

\* std::vector<Point>::operator= as the standard library implements it:
\* new storage when the capacity is too small (every element
\* copy-constructed), otherwise the elements that exist are assigned to
\* with Point::operator= and the others copy-constructed.
VectorAssign(dst, src) ==
    IF Len(src) > dst.cap
    THEN [pts |-> src, cap |-> Len(src)]
    ELSE [pts |-> [j \in 1..Len(src) |->
                     IF j <= Len(dst.pts) THEN PointAssign(dst.pts[j], src[j])
                     ELSE src[j]],
          cap |-> dst.cap]

\* The implicit PointCloud::operator=: the vector base, then both flags.
CloudAssign(dst, src) ==
    LET v == VectorAssign(dst, src.pts)
    IN  [pts |-> v.pts, cap |-> v.cap,
         points2d |-> src.points2d, ordered |-> src.ordered]

\* std::vector::push_back; the capacity doubles when it is exhausted.
PushBack(cl, p) ==
    [cl EXCEPT !.pts = Append(@, p),
               !.cap = IF Len(cl.pts) < @ THEN @
                       ELSE IF @ = 0 THEN 1 ELSE 2 * @]

\* PointCloud::PointCloud() sets points2d and leaves ordered uninitialised:
\* the flag of a new cloud is either value.
NewClouds ==
    {[pts |-> <<>>, cap |-> 0, points2d |-> FALSE, ordered |-> o] :
        o \in BOOLEAN}

(***************************************************************************)
(* The spatial index (kdtree/kdtree.hpp, not part of the sources at hand:  *)
(* modelled from its contract).  A node carries the coordinates it was     *)
(* built from, the position data of the point in the cloud and the index   *)
(* attribute a caller may set.                                             *)
(***************************************************************************)
KdNode(point, data, index) == [point |-> point, data |-> data, index |-> index]

SqDist(p, q) == squared_norm(VSub(p, q))

\* range_nearest_neighbors: the nodes within Euclidean distance r of the
\* query point, in the order the tree was built from.
RangeMatch(nd, q, rr) == FLe(FSqrt(SqDist(nd.point, q)), rr)

range_nearest_neighbors(kdtree, q, rr) ==
    SelectSeq(kdtree, LAMBDA nd : RangeMatch(nd, q, rr))

(***************************************************************************)
(* smoothen_cloud (pointcloud.cpp)                                         *)
(***************************************************************************)
\* std::accumulate(list.begin(), list.end(), 0.0)
RECURSIVE Accumulate(_, _)
Accumulate(list, acc) ==
    IF list = <<>> THEN acc
    ELSE Accumulate(Tail(list), FAdd(acc, Head(list)))

\* the nodes smoothen_cloud builds its kd-tree from
SmoothNodes(cl) == [j \in 1..Len(cl.pts) |-> KdNode(as_vector(cl.pts[j]), 0, 0)]

\* SmoothedPoint with the point's position written in place of its index.
SmoothedPointPositionIndex(cl, kdtree, j, rr) ==
    LET point       == cl.pts[j]
        result      == range_nearest_neighbors(kdtree, as_vector(point), rr)
        result_size == FromInt(Len(result))
    IN  MkPoint(FDiv(Accumulate([t \in 1..Len(result) |-> result[t].point.x], Zero),
                     result_size),
                FDiv(Accumulate([t \in 1..Len(result) |-> result[t].point.y], Zero),
                     result_size),
                FDiv(Accumulate([t \in 1..Len(result) |-> result[t].point.z], Zero),
                     result_size),
                j - 1)

\* SmoothedPoint with the query point itself left out of the centroid.
SmoothedPointSkipSelf(cl, kdtree, j, rr) ==
    LET point       == cl.pts[j]
        found       == range_nearest_neighbors(kdtree, as_vector(point), rr)
        result      == SelectSeq(found,
                          LAMBDA nd : ~FEq(SqDist(nd.point, as_vector(point)), Zero))
        result_size == FromInt(Len(result))
    IN  MkPoint(FDiv(Accumulate([t \in 1..Len(result) |-> result[t].point.x], Zero),
                     result_size),
                FDiv(Accumulate([t \in 1..Len(result) |-> result[t].point.y], Zero),
                     result_size),
                FDiv(Accumulate([t \in 1..Len(result) |-> result[t].point.z], Zero),
                     result_size),
                point.index)

\* One pass of the loop body for the point at position j: the centroid of
\* the range query's result, with the point's own index.
SmoothedPoint(cl, kdtree, j, rr) ==
    LET point       == cl.pts[j]
        result      == range_nearest_neighbors(kdtree, as_vector(point), rr)
        result_size == FromInt(Len(result))
        x_list == [t \in 1..Len(result) |-> result[t].point.x]
        y_list == [t \in 1..Len(result) |-> result[t].point.y]
        z_list == [t \in 1..Len(result) |-> result[t].point.z]
    IN  MkPoint(FDiv(Accumulate(x_list, Zero), result_size),
                FDiv(Accumulate(y_list, Zero), result_size),
                FDiv(Accumulate(z_list, Zero), result_size),
                point.index)

(***************************************************************************)
(* Inputs of smoothen_cloud.                                               *)
(***************************************************************************)
MaxSmoothPoints == 3

SmoothPositions == {<<0, 0, 0>>, <<1, 0, 0>>, <<2, 0, 0>>, <<1, 1, 1>>}

\* the index attributes of a cloud of m points: as read from a file
\* (0, 1, ...), or the reverse
IndexSchemes(m) == {[j \in 1..m |-> j - 1], [j \in 1..m |-> m - j]}

PointAt(pos, index) ==
    MkPoint(FromInt(pos[1]), FromInt(pos[2]), FromInt(pos[3]), index)

CloudsOver(positions, maxlen) ==
    UNION {
      {[pts |-> [j \in 1..m |-> PointAt(ps[j], ix[j])], cap |-> m,
        points2d |-> FALSE, ordered |-> o] :
          ps \in [1..m -> positions], ix \in IndexSchemes(m), o \in BOOLEAN}
      : m \in 1..maxlen}

\* radii: 0 (no smoothing), 1 and 3/2
SmoothRadii == {Zero, One, FDiv(FromInt(3), Two)}

\* a result cloud that already holds a point when it is passed
UsedClouds ==
    {[pts |-> <<MkPoint(FromInt(5), FromInt(5), FromInt(5), 7)>>, cap |-> c,
      points2d |-> FALSE, ordered |-> FALSE] : c \in {1, MaxSmoothPoints}}

\* a result cloud emptied by clear(), which keeps its storage
ClearedClouds ==
    {[pts |-> <<>>, cap |-> MaxSmoothPoints, points2d |-> FALSE,
      ordered |-> FALSE]}

\* generate_triplets is not under way
TripletIdle ==
    /\ triplets = <<>> /\ candidates = <<>>
    /\ trip_k = 0 /\ trip_n = 0 /\ trip_a = Zero /\ point_index_b = 0

\* no metric is under way
NoTriplet == [center |-> Vec(Zero, Zero, Zero), direction |-> Vec(Zero, Zero, Zero)]

NoReturn == [value |-> Zero, saturated |-> FALSE]

MetricIdle ==
    /\ metric_scale = Zero
    /\ metric_lhs = NoTriplet /\ metric_rhs = NoTriplet
    /\ metric_lr = NoReturn /\ metric_rl = NoReturn

\* no function of cluster.cpp or graph.cpp is under way
NoFrame == [function |-> "none"]

NoOptions == [s |-> Zero]

ClusterIdle == opt_params = NoOptions /\ cl_group = <<>> /\ frame = NoFrame

SmoothInit ==
    /\ pc = "smoothen_cloud"
    /\ cloud \in CloudsOver(SmoothPositions, MaxSmoothPoints)
    /\ result_cloud \in NewClouds \cup ClearedClouds \cup UsedClouds
    /\ result_pre = result_cloud
    /\ smooth_r \in SmoothRadii
    /\ tree = <<>>
    /\ smooth_i = 0
    /\ queries = 0
    /\ TripletIdle
    /\ MetricIdle
    /\ ClusterIdle

\* if (r == 0) { result_cloud = cloud; return; }
SmoothenCopy ==
    /\ pc = "smoothen_cloud"
    /\ FEq(smooth_r, Zero)
    /\ result_cloud' = CloudAssign(result_cloud, cloud)
    /\ pc' = "smoothed"
    /\ UNCHANGED <<cloud, tree, result_pre, smooth_r, smooth_i, queries, tripletVars, metricVars, clusterVars>>

\* build kdtree
SmoothenBuild ==
    /\ pc = "smoothen_cloud"
    /\ ~FEq(smooth_r, Zero)
    /\ tree' = SmoothNodes(cloud)
    /\ smooth_i' = 0
    /\ pc' = "smoothen_loop"
    /\ UNCHANGED <<cloud, result_cloud, result_pre, smooth_r, queries, tripletVars, metricVars, clusterVars>>

\* the loop body that would also store the smoothed point in the cloud
\* that is read
SmoothenPointInPlace ==
    /\ pc = "smoothen_loop"
    /\ smooth_i < Len(cloud.pts)
    /\ LET new_point == SmoothedPoint(cloud, tree, smooth_i + 1, smooth_r)
       IN  /\ result_cloud' = PushBack(result_cloud, new_point)
           /\ cloud' = [cloud EXCEPT !.pts[smooth_i + 1] =
                                        PointAssign(@, new_point)]
    /\ queries' = queries + 1
    /\ smooth_i' = smooth_i + 1
    /\ UNCHANGED <<pc, tree, result_pre, smooth_r, tripletVars, metricVars, clusterVars>>

\* the loop body for cloud[i]
SmoothenPoint ==
    /\ pc = "smoothen_loop"
    /\ smooth_i < Len(cloud.pts)
    /\ result_cloud' =
         PushBack(result_cloud, SmoothedPoint(cloud, tree, smooth_i + 1, smooth_r))
    /\ queries' = queries + 1
    /\ smooth_i' = smooth_i + 1
    /\ UNCHANGED <<pc, cloud, tree, result_pre, smooth_r, tripletVars, metricVars, clusterVars>>

\* result_cloud.setOrdered(cloud.isOrdered());
SmoothenFinish ==
    /\ pc = "smoothen_loop"
    /\ smooth_i = Len(cloud.pts)
    /\ result_cloud' = [result_cloud EXCEPT !.ordered = cloud.ordered]
    /\ pc' = "smoothed"
    /\ UNCHANGED <<cloud, tree, result_pre, smooth_r, smooth_i, queries, tripletVars, metricVars, clusterVars>>

SmoothNext == SmoothenCopy \/ SmoothenBuild \/ SmoothenPoint \/ SmoothenFinish

SmoothSpec == SmoothInit /\ [][SmoothNext]_vars

(***************************************************************************)
(* Properties of smoothen_cloud.                                           *)
(***************************************************************************)
Smoothed == pc = "smoothed"

\* C1: called with an empty result cloud, smoothen_cloud returns a cloud of
\* the input's length whose point at every position has the index of the
\* input point at that position and whose ordered flag is the input's.
C1_SmoothPreservesShape ==
    (Smoothed /\ result_pre.pts = <<>>) =>
        /\ Len(result_cloud.pts) = Len(cloud.pts)
        /\ \A j \in 1..Len(cloud.pts) :
              result_cloud.pts[j].index = cloud.pts[j].index
        /\ result_cloud.ordered = cloud.ordered

\* a smoothed cloud (r > 0) of the largest size, ordered, whose indices are
\* not the positions, returned through a new cloud whose flag was unset
C1_Witness ==
    /\ Smoothed
    /\ result_pre.pts = <<>> /\ result_pre.cap = 0 /\ ~result_pre.ordered
    /\ ~FEq(smooth_r, Zero)
    /\ Len(result_cloud.pts) = MaxSmoothPoints
    /\ cloud.ordered
    /\ result_cloud.pts[1].index = MaxSmoothPoints - 1

Neighbourhood(j) ==
    {t \in 1..Len(cloud.pts) :
        FLe(norm(VSub(as_vector(cloud.pts[t]), as_vector(cloud.pts[j]))), smooth_r)}

RECURSIVE SumOver(_, _, _)
SumOver(S, t, coord) ==
    IF t > Len(cloud.pts) THEN Zero
    ELSE IF t \in S THEN FAdd(cloud.pts[t][coord], SumOver(S, t + 1, coord))
    ELSE SumOver(S, t + 1, coord)

MeanOver(S, coord) == FDiv(SumOver(S, 1, coord), FromInt(Cardinality(S)))

\* the point smoothen_cloud appended for position j
SmoothedAt(j) == result_cloud.pts[Len(result_pre.pts) + j]

\* C3: for r > 0 the smoothed point of every position is the mean of the
\* points of the input cloud within distance r of the input point; the
\* input point is one of them, and no coordinate is a division by zero.
C3_SmoothIsCentroid ==
    (Smoothed /\ ~FEq(smooth_r, Zero)) =>
        \A j \in 1..Len(cloud.pts) :
            /\ j \in Neighbourhood(j)
            /\ \A coord \in {"x", "y", "z"} :
                  /\ ~IsNaN(SmoothedAt(j)[coord])
                  /\ FEq(SmoothedAt(j)[coord], MeanOver(Neighbourhood(j), coord))

\* a point moved by smoothing: it has a neighbour within r and the cloud
\* has a point beyond r
C3_Witness ==
    /\ Smoothed /\ ~FEq(smooth_r, Zero)
    /\ \E j \in 1..Len(cloud.pts) :
          /\ Cardinality(Neighbourhood(j)) = 2
          /\ Len(cloud.pts) = 3
          /\ as_vector(SmoothedAt(j)) # as_vector(cloud.pts[j])

(***************************************************************************)
(* k_nearest_neighbors (kdtree/kdtree.hpp, modelled from its contract):    *)
(* at most kk nodes, ascending by squared distance from q, nodes at equal  *)
(* distance in the order the tree was built from, and the squared          *)
(* distances beside them.                                                  *)
(***************************************************************************)
Min(x, y) == IF x < y THEN x ELSE y

\* a sequence given by its elements, as the vector of their values
Vector(f) == f \o <<>>

k_nearest_neighbors(kdtree, q, kk) ==
    LET d == Vector([j \in 1..Len(kdtree) |-> SqDist(kdtree[j].point, q)])
        before(t, j) == FLt(d[t], d[j]) \/ (FEq(d[t], d[j]) /\ t < j)
        rank == Vector([j \in 1..Len(kdtree) |->
                          Cardinality({t \in 1..Len(kdtree) : before(t, j)})])
        at == Vector([p \in 1..Min(kk, Len(kdtree)) |->
                        CHOOSE j \in 1..Len(kdtree) : rank[j] = p - 1])
    IN  [result    |-> Vector([p \in 1..Len(at) |-> kdtree[at[p]]]),
         distances |-> Vector([p \in 1..Len(at) |-> d[at[p]]])]

(***************************************************************************)
(* generate_triplets (triplet.cpp)                                         *)
(***************************************************************************)
\* the nodes generate_triplets builds its kd-tree from: data points to the
\* position of the point in the cloud, index is the point's index
TripletNodes(cl) ==
    [j \in 1..Len(cl.pts) |->
        KdNode(as_vector(cl.pts[j]), j - 1, cl.pts[j].index)]

\* NewTriplet with the index of c copied from the node of a.
NewTripletPastedIndex(point_b, b, node_a, node_c) ==
    LET point_a == node_a.point
        point_c == node_c.point
        ab == VSub(point_b, point_a)
        bc == VSub(point_c, point_b)
    IN  [point_index_a |-> node_a.data,
         point_index_b |-> b,
         point_index_c |-> node_a.data,
         center    |-> VDiv(VAdd(VAdd(point_a, point_b), point_c), FromInt(3)),
         direction |-> VDiv(bc, norm(bc)),
         error     |-> FSub(One, Dot(VDiv(ab, norm(ab)), VDiv(bc, norm(bc))))]

\* The triplet of the neighbours node_a and node_c of the midpoint point_b
\* at position b.
NewTriplet(point_b, b, node_a, node_c) ==
    LET point_a == node_a.point
        point_c == node_c.point
        ab == VSub(point_b, point_a)
        direction_ab == VDiv(ab, norm(ab))
        bc == VSub(point_c, point_b)
        direction_bc == VDiv(bc, norm(bc))
        angle == Dot(direction_ab, direction_bc)
        error == FSub(One, angle)
        center == VDiv(VAdd(VAdd(point_a, point_b), point_c), FromInt(3))
        direction == VDiv(bc, norm(bc))
    IN  [point_index_a |-> node_a.data,
         point_index_b |-> b,
         point_index_c |-> node_c.data,
         center    |-> center,
         direction |-> direction,
         error     |-> error]

\* the two tests that skip a neighbour as point a
SkipA(cl, nn, b, ra) ==
    \/ FEq(nn.distances[ra], Zero)
    \/ cl.ordered /\ nn.result[ra].index > cl.pts[b + 1].index

\* SkipC without the test of the index.
SkipCAnyIndex(cl, nn, b, rc) == FEq(nn.distances[rc], Zero)

\* the two tests that skip a neighbour as point c
SkipC(cl, nn, b, rc) ==
    \/ FEq(nn.distances[rc], Zero)
    \/ cl.ordered /\ cl.pts[b + 1].index > nn.result[rc].index

\* FirstC starting the inner loop at a itself.
FirstCAtA(ra) == ra

\* the first position of the inner loop: result_index_a + 1
FirstC(ra) == ra + 1

\* The candidates of the midpoint at position b in the order the two loops
\* generate them, from the positions (ra, rc) of the result on.  Positions
\* of the result are 1-based here: the outer loop starts at 2.
RECURSIVE CandidatesFrom(_, _, _, _, _, _)
CandidatesFrom(cl, nn, aa, b, ra, rc) ==
    IF ra > Len(nn.result) THEN <<>>
    ELSE IF SkipA(cl, nn, b, ra)
         THEN CandidatesFrom(cl, nn, aa, b, ra + 1, FirstC(ra + 1))
    ELSE IF rc > Len(nn.result)
         THEN CandidatesFrom(cl, nn, aa, b, ra + 1, FirstC(ra + 1))
    ELSE IF SkipC(cl, nn, b, rc)
         THEN CandidatesFrom(cl, nn, aa, b, ra, rc + 1)
    ELSE LET t == NewTriplet(cl.pts[b + 1], b, nn.result[ra], nn.result[rc])
         IN  (IF FLe(t.error, aa) THEN <<t>> ELSE <<>>)
             \o CandidatesFrom(cl, nn, aa, b, ra, rc + 1)

triplet_candidates(cl, kdtree, kk, aa, b) ==
    CandidatesFrom(cl, k_nearest_neighbors(kdtree, as_vector(cl.pts[b + 1]), kk),
                   aa, b, 2, FirstC(2))

\* triplet::operator<
TripletLess(t1, t2) == FLt(t1.error, t2.error)

\* The arrangements of len of the candidates at the positions S that can
\* start a sorted vector: no triplet comes before a smaller one.
RECURSIVE SortedFrom(_, _, _)
SortedFrom(cands, S, len) ==
    IF len = 0 THEN {<<>>}
    ELSE UNION {
           {<<cands[c]>> \o rest : rest \in SortedFrom(cands, S \ {c}, len - 1)}
           : c \in {c \in S : \A d \in S : ~TripletLess(cands[d], cands[c])}}

\* BestCandidates without the sort.
BestCandidatesUnsorted(cands, nn) == {SubSeq(cands, 1, Min(nn, Len(cands)))}

\* std::sort, then the first min(n, size) candidates.  The order std::sort
\* leaves equal triplets in is not specified: every sorted arrangement is a
\* possible outcome.
BestCandidates(cands, nn) ==
    SortedFrom(cands, DOMAIN cands, Min(nn, Len(cands)))

(***************************************************************************)
(* Inputs of generate_triplets.                                            *)
(***************************************************************************)
MaxTripletPoints == 4

TripletPositions == {<<0, 0, 0>>, <<1, 1, 0>>, <<2, 2, 0>>, <<2, 0, 0>>}

\* No smoothing is under way.
SmoothIdle ==
    /\ result_cloud \in {c \in NewClouds : ~c.ordered}
    /\ result_pre = result_cloud
    /\ smooth_r = Zero /\ smooth_i = 0 /\ queries = 0

TripletAlphas == {Zero, One, Two}

TripletInit ==
    /\ pc = "generate_triplets"
    /\ cloud \in {c \in CloudsOver(TripletPositions, MaxTripletPoints) :
                    c.ordered \/ c.pts[1].index = 0}
    /\ tree = <<>>
    /\ triplets = <<>>
    /\ candidates = <<>>
    /\ trip_k \in {MaxTripletPoints - 1, MaxTripletPoints}
    /\ trip_n \in {1, 2}
    /\ trip_a \in TripletAlphas
    /\ point_index_b = 0
    /\ SmoothIdle
    /\ MetricIdle
    /\ ClusterIdle

\* build kdtree
GenerateBuild ==
    /\ pc = "generate_triplets"
    /\ tree' = TripletNodes(cloud)
    /\ point_index_b' = 0
    /\ pc' = "generate_loop"
    /\ UNCHANGED <<cloud, triplets, candidates, trip_k, trip_n, trip_a, smoothVars, metricVars, clusterVars>>

\* the loop body for the midpoint cloud[point_index_b]
GenerateMidpoint ==
    /\ pc = "generate_loop"
    /\ point_index_b < Len(cloud.pts)
    /\ LET cands == triplet_candidates(cloud, tree, trip_k, trip_a, point_index_b)
       IN  /\ candidates' = Append(candidates, cands)
           /\ \E best \in BestCandidates(cands, trip_n) :
                 triplets' = triplets \o best
    /\ point_index_b' = point_index_b + 1
    /\ UNCHANGED <<pc, cloud, tree, trip_k, trip_n, trip_a, smoothVars, metricVars, clusterVars>>

GenerateReturn ==
    /\ pc = "generate_loop"
    /\ point_index_b = Len(cloud.pts)
    /\ pc' = "generated"
    /\ UNCHANGED <<cloud, tree, tripletVars, smoothVars, metricVars, clusterVars>>

TripletNext == GenerateBuild \/ GenerateMidpoint \/ GenerateReturn

TripletSpec == TripletInit /\ [][TripletNext]_vars

(***************************************************************************)
(* Properties of generate_triplets.                                        *)
(***************************************************************************)
Generated == pc = "generated"

\* the point of the cloud a triplet's index names
PointOf(index) == cloud.pts[index + 1]

\* the triplets emitted so far with the midpoint at position b
EmittedFor(b) == SelectSeq(triplets, LAMBDA t : t.point_index_b = b)

SameTriple(t1, t2) ==
    /\ t1.point_index_a = t2.point_index_a
    /\ t1.point_index_b = t2.point_index_b
    /\ t1.point_index_c = t2.point_index_c

Coincide(p, q) == FEq(SqDist(as_vector(p), as_vector(q)), Zero)

\* C4: every emitted triplet has three pairwise distinct point indices, and
\* neither a nor c is at squared distance zero from the midpoint.
C4_DistinctIndices ==
    \A j \in 1..Len(triplets) :
        LET t == triplets[j] IN
        /\ t.point_index_a # t.point_index_b
        /\ t.point_index_b # t.point_index_c
        /\ t.point_index_a # t.point_index_c
        /\ ~Coincide(PointOf(t.point_index_a), PointOf(t.point_index_b))
        /\ ~Coincide(PointOf(t.point_index_c), PointOf(t.point_index_b))

\* a triplet whose midpoint has a coincident twin in the cloud, the twin
\* inserted before it
C4_Witness ==
    /\ Generated
    /\ \E j \in 1..Len(triplets) :
          \E w \in 1..Len(cloud.pts) :
              /\ w - 1 < triplets[j].point_index_b
              /\ Coincide(cloud.pts[w], PointOf(triplets[j].point_index_b))

\* 1 - cos of the angle between b - a and c - b, for the points at the
\* positions ia, ib, ic of the cloud
ErrorOf(ia, ib, ic) ==
    LET ab == VSub(as_vector(PointOf(ib)), as_vector(PointOf(ia)))
        bc == VSub(as_vector(PointOf(ic)), as_vector(PointOf(ib)))
    IN  FSub(One, Dot(VDiv(ab, norm(ab)), VDiv(bc, norm(bc))))

\* C5: every emitted triplet has error = 1 - cos(angle between b - a and
\* c - b), with 0 <= error <= 2 and error <= alpha.
C5_ErrorInRange ==
    \A j \in 1..Len(triplets) :
        LET t == triplets[j] IN
        /\ FEq(t.error, ErrorOf(t.point_index_a, t.point_index_b, t.point_index_c))
        /\ FLe(Zero, t.error)
        /\ FLe(t.error, Two)
        /\ FLe(t.error, trip_a)

IndicesDistinct ==
    \A u, w \in 1..Len(cloud.pts) :
        u # w => cloud.pts[u].index # cloud.pts[w].index

\* the cloud with every index attribute 0: no index test can reject a pair
Unindexed(cl) ==
    [cl EXCEPT !.pts = [j \in 1..Len(cl.pts) |-> [cl.pts[j] EXCEPT !.index = 0]]]

\* C6: of an ordered cloud every emitted triplet has a.index <= b.index <=
\* c.index (strictly when the indices of the cloud are pairwise distinct);
\* of a cloud that is not ordered the candidates of every midpoint are
\* those that no index test has touched.
C6_OrderedIndices ==
    /\ cloud.ordered =>
          \A j \in 1..Len(triplets) :
              LET ia == PointOf(triplets[j].point_index_a).index
                  ib == PointOf(triplets[j].point_index_b).index
                  ic == PointOf(triplets[j].point_index_c).index
              IN  /\ ia <= ib /\ ib <= ic
                  /\ IndicesDistinct => (ia < ib /\ ib < ic)
    /\ (Generated /\ ~cloud.ordered) =>
          \A b \in 0..(Len(candidates) - 1) :
              candidates[b + 1] =
                  triplet_candidates(Unindexed(cloud),
                                     TripletNodes(Unindexed(cloud)),
                                     trip_k, trip_a, b)

\* an ordered cloud of which a triplet is emitted and a candidate is lost
\* to the index tests
C6_Witness ==
    /\ Generated
    /\ cloud.ordered
    /\ triplets # <<>>
    /\ \E b \in 0..(Len(cloud.pts) - 1) :
          Len(candidates[b + 1]) <
              Len(triplet_candidates(Unindexed(cloud),
                                     TripletNodes(Unindexed(cloud)),
                                     trip_k, trip_a, b))

\* C7: for every midpoint done, exactly min(n, |candidates|) triplets are
\* emitted, each one of its candidates, and no candidate left out has a
\* smaller error than an emitted one.
C7_BestCandidatesEmitted ==
    \A b \in 0..(Len(candidates) - 1) :
        LET em == EmittedFor(b)
            cs == candidates[b + 1]
        IN  /\ Len(em) = Min(trip_n, Len(cs))
            /\ Len(em) <= trip_n
            /\ \A e \in 1..Len(em) : \E c \in 1..Len(cs) : em[e] = cs[c]
            /\ \A c \in 1..Len(cs) :
                  (\A e \in 1..Len(em) : ~SameTriple(em[e], cs[c])) =>
                      \A e \in 1..Len(em) : FLe(em[e].error, cs[c].error)

\* a midpoint with more candidates than n, not all of one error, the
\* smallest not generated first
C7_Witness ==
    /\ Generated
    /\ \E b \in 0..(Len(candidates) - 1) :
          LET cs == candidates[b + 1] IN
          /\ Len(cs) > trip_n
          /\ \E c \in 2..Len(cs) : FLt(cs[c].error, cs[1].error)

\* C8: no two entries of the triplet vector have the same index triple.
C8_NoDuplicates ==
    \A u, w \in 1..Len(triplets) :
        u # w => ~SameTriple(triplets[u], triplets[w])

\* two triplets of one midpoint that share their point a
C8_Witness ==
    /\ Generated
    /\ \E u, w \in 1..Len(triplets) :
          /\ u # w
          /\ triplets[u].point_index_b = triplets[w].point_index_b
          /\ triplets[u].point_index_a = triplets[w].point_index_a

(***************************************************************************)
(* ScaleTripletMetric (triplet.cpp): the dissimilarity of two triplets.    *)
(* A call returns a double from one of two return statements; the model    *)
(* keeps both, the value and which statement returned it.                  *)
(***************************************************************************)

\* the doubles written 1.0e+8 and 1.0e-8
Saturation == FromInt(100000000)

Orthogonal == FDiv(One, FromInt(100000000))

\* (rhs.center - lhs.center +
\*  lhs.direction * (lhs.center - rhs.center) * lhs.direction).squared_norm()
perpendicularDistanceA(lhs, rhs) ==
    squared_norm(VAdd(VSub(rhs.center, lhs.center),
                      VScale(Dot(lhs.direction, VSub(lhs.center, rhs.center)),
                             lhs.direction)))

\* (lhs.center - rhs.center +
\*  rhs.direction * (rhs.center - lhs.center) * rhs.direction).squared_norm()
perpendicularDistanceB(lhs, rhs) ==
    squared_norm(VAdd(VSub(lhs.center, rhs.center),
                      VScale(Dot(rhs.direction, VSub(rhs.center, lhs.center)),
                             rhs.direction)))

\* anglecos after the two if statements that bring it into [-1, 1]
anglecos(lhs, rhs) ==
    LET c == Dot(lhs.direction, rhs.direction)
    IN  IF FGt(c, One) THEN One
        ELSE IF FLt(c, FNeg(One)) THEN FNeg(One)
        ELSE c

\* std::tan(std::acos(c)) for c in [-1, 1], c # 0: sqrt(1 - c * c) / c in
\* the arithmetic of the model.  std::acos(-1.0) is the double next to pi
\* and below it, where the tangent is a small negative number, not zero.
TanAcos(c) ==
    IF FEq(c, FNeg(One)) THEN <<-1, -MantBits>>
    ELSE FDiv(FSqrt(FSub(One, FMul(c, c))), c)

\* the metric with the test of the cosine without std::fabs
ScaleTripletMetricSigned(scale, lhs, rhs) ==
    IF FLt(anglecos(lhs, rhs), Orthogonal)
    THEN [value |-> Saturation, saturated |-> TRUE]
    ELSE [value |->
            FAdd(FDiv(FSqrt(FMax(perpendicularDistanceA(lhs, rhs),
                                 perpendicularDistanceB(lhs, rhs))),
                      scale),
                 FAbs(TanAcos(anglecos(lhs, rhs)))),
          saturated |-> FALSE]

\* the metric with the distance of rhs.center from the line of lhs alone,
\* and the tangent with its sign
ScaleTripletMetricOneSided(scale, lhs, rhs) ==
    IF FLt(FAbs(anglecos(lhs, rhs)), Orthogonal)
    THEN [value |-> Saturation, saturated |-> TRUE]
    ELSE [value |->
            FAdd(FDiv(FSqrt(perpendicularDistanceA(lhs, rhs)), scale),
                 TanAcos(anglecos(lhs, rhs))),
          saturated |-> FALSE]

\* double ScaleTripletMetric::operator()(const triplet &lhs, const triplet &rhs)
ScaleTripletMetric(scale, lhs, rhs) ==
    IF FLt(FAbs(anglecos(lhs, rhs)), Orthogonal)
    THEN [value |-> Saturation, saturated |-> TRUE]
    ELSE [value |->
            FAdd(FDiv(FSqrt(FMax(perpendicularDistanceA(lhs, rhs),
                                 perpendicularDistanceB(lhs, rhs))),
                      scale),
                 FAbs(TanAcos(anglecos(lhs, rhs)))),
          saturated |-> FALSE]

(***************************************************************************)
(* The triplets and scales the metric is applied to.                       *)
(***************************************************************************)
MetricCenters == {<<0, 0, 0>>, <<1, 0, 0>>, <<0, 2, 0>>, <<1, 1, 1>>}

\* the unit vectors of two axes and of a diagonal (as generate_triplets
\* normalises it), a vector that is not a unit vector, and vectors whose
\* cosine with the y axis is next to zero on either side of 1.0e-8
MetricDirections ==
    {Vec(One, Zero, Zero), Vec(FNeg(One), Zero, Zero), Vec(Zero, One, Zero),
     Vec(Two, Zero, Zero),
     VDiv(Vec(One, One, Zero), norm(Vec(One, One, Zero))),
     Vec(One, <<1, -30>>, Zero), Vec(One, <<-1, -30>>, Zero),
     Vec(One, <<1, -20>>, Zero)}

MetricScales == {One, Two, FDiv(One, Two)}

MetricTriplets ==
    {[center |-> Vec(FromInt(c[1]), FromInt(c[2]), FromInt(c[3])),
      direction |-> d] : c \in MetricCenters, d \in MetricDirections}

MetricInit ==
    /\ pc = "ScaleTripletMetric"
    /\ cloud \in {c \in NewClouds : ~c.ordered}
    /\ tree = <<>>
    /\ metric_scale = Zero
    /\ metric_lhs \in MetricTriplets
    /\ metric_rhs \in MetricTriplets
    /\ metric_lr = NoReturn /\ metric_rl = NoReturn
    /\ SmoothIdle
    /\ TripletIdle
    /\ ClusterIdle

\* ScaleTripletMetric::ScaleTripletMetric(double s)
MetricConstruct ==
    /\ pc = "ScaleTripletMetric"
    /\ \E s \in MetricScales : metric_scale' = s
    /\ pc' = "metric"
    /\ UNCHANGED <<cloud, tree, metric_lhs, metric_rhs, metric_lr, metric_rl,
                   smoothVars, tripletVars, clusterVars>>

\* metric(lhs, rhs)
MetricCall ==
    /\ pc = "metric"
    /\ metric_lr' = ScaleTripletMetric(metric_scale, metric_lhs, metric_rhs)
    /\ pc' = "metric_swapped"
    /\ UNCHANGED <<cloud, tree, metric_scale, metric_lhs, metric_rhs, metric_rl,
                   smoothVars, tripletVars, clusterVars>>

\* metric(rhs, lhs)
MetricCallSwapped ==
    /\ pc = "metric_swapped"
    /\ metric_rl' = ScaleTripletMetric(metric_scale, metric_rhs, metric_lhs)
    /\ pc' = "measured"
    /\ UNCHANGED <<cloud, tree, metric_scale, metric_lhs, metric_rhs, metric_lr,
                   smoothVars, tripletVars, clusterVars>>

MetricNext == MetricConstruct \/ MetricCall \/ MetricCallSwapped

MetricSpec == MetricInit /\ [][MetricNext]_vars

(***************************************************************************)
(* Properties of the metric.                                               *)
(***************************************************************************)
Measured == pc = "measured"

\* C9: the metric is symmetric and not negative: d(L, R) = d(R, L) and
\* d(L, R) >= 0 for all triplets L, R and every scale s > 0.
C9_MetricSymmetric ==
    Measured =>
        /\ FGt(metric_scale, Zero)
        /\ FEq(metric_lr.value, metric_rl.value)
        /\ FLe(Zero, metric_lr.value)
        /\ FLe(Zero, metric_rl.value)

\* two triplets of different lines that meet at an obtuse angle, measured
\* both ways, with a distance that is neither zero nor the saturation
C9_Witness ==
    /\ Measured
    /\ metric_lhs.center # metric_rhs.center
    /\ FLt(Dot(metric_lhs.direction, metric_rhs.direction), Zero)
    /\ ~metric_lr.saturated
    /\ FGt(metric_lr.value, Zero)
    /\ FGt(perpendicularDistanceA(metric_lhs, metric_rhs),
           perpendicularDistanceB(metric_lhs, metric_rhs))

\* the scalar product of the directions, brought into [-1, 1]
CosTheta(L, R) ==
    LET c == Dot(L.direction, R.direction)
    IN  IF FLt(One, c) THEN One
        ELSE IF FLt(c, FNeg(One)) THEN FNeg(One)
        ELSE c

\* rho_LR = |(cR - cL) + ((cL - cR) . dL) dL|^2
Rho(L, R) ==
    squared_norm(VAdd(VSub(R.center, L.center),
                      VScale(Dot(VSub(L.center, R.center), L.direction),
                             L.direction)))

\* C10: the metric returns the saturation 1e8 exactly when |dL . dR|,
\* brought into [-1, 1], is below 1e-8, whatever the centers and the scale;
\* otherwise it returns sqrt(max(rho_LR, rho_RL)) / s + |tan(acos(dL . dR))|;
\* the saturation is a value returned, not an error.
C10_MetricSaturation ==
    pc \in {"metric_swapped", "measured"} =>
        LET c == CosTheta(metric_lhs, metric_rhs) IN
        /\ metric_lr.saturated <=> FLt(FAbs(c), Orthogonal)
        /\ metric_lr.saturated => metric_lr.value = Saturation
        /\ ~metric_lr.saturated =>
              metric_lr.value =
                  FAdd(FDiv(FSqrt(FMax(Rho(metric_lhs, metric_rhs),
                                       Rho(metric_rhs, metric_lhs))),
                            metric_scale),
                       FAbs(TanAcos(c)))
        /\ ~IsNaN(metric_lr.value)

\* a saturated return for directions that are not exactly orthogonal, with
\* centers apart and a scale other than 1
C10_Witness ==
    /\ Measured
    /\ metric_lr.saturated
    /\ ~FEq(Dot(metric_lhs.direction, metric_rhs.direction), Zero)
    /\ metric_lhs.center # metric_rhs.center
    /\ metric_scale # One

(***************************************************************************)
(* compute_hc (cluster.cpp): the hierarchical clustering of the triplets   *)
(* and the cut of the dendrogram.  Positions of arrays are 0-based in the  *)
(* code and 1-based here: cdists[k] of the code is cdists[k + 1].          *)
(***************************************************************************)

\* sum += a[i] for i from 0 to m - 1
RECURSIVE SumTo(_, _)
SumTo(arr, m) == IF m = 0 THEN Zero ELSE FAdd(SumTo(arr, m - 1), arr[m])

\* double mean(const double *a, size_t m)
mean(arr, m) == FDiv(SumTo(arr, m), FromInt(m))

\* sum += (tmp * tmp) with tmp = mean_val - a[k], for k from 0 to m - 1
RECURSIVE SquaresTo(_, _, _)
SquaresTo(arr, mean_val, m) ==
    IF m = 0 THEN Zero
    ELSE LET tmp == FSub(mean_val, arr[m])
         IN  FAdd(SquaresTo(arr, mean_val, m - 1), FMul(tmp, tmp))

\* double sd(const double *a, size_t m).  For m = 1 the code divides 1.0 by
\* 0.0 and multiplies the infinity by the sum 0.0: the result is NaN.
sd(arr, m) ==
    LET sum == SquaresTo(arr, mean(arr, m), m)
        result == FMul(FDiv(One, FSub(FromInt(m), One)), sum)
    IN  FSqrt(result)

\* the pairs (i, j), i < j, of positions of the triplets in the order of the
\* two loops of calculate_distance_matrix
RECURSIVE PairsFrom(_, _, _)
PairsFrom(size, i, j) ==
    IF i > size THEN <<>>
    ELSE IF j > size THEN PairsFrom(size, i + 1, i + 2)
    ELSE <<<<i, j>>>> \o PairsFrom(size, i, j + 1)

\* calculate_distance_matrix: the condensed distance matrix
calculate_distance_matrix(trips, scale) ==
    LET pairs == PairsFrom(Len(trips), 1, 2)
    IN  Vector([p \in 1..Len(pairs) |->
                  ScaleTripletMetric(scale, trips[pairs[p][1]],
                                     trips[pairs[p][2]]).value])

\* the position of the pair (i, j), i < j, in the condensed matrix of size
\* observations
CondensedIndex(size, i, j) ==
    (i - 1) * size - ((i - 1) * i) \div 2 + (j - i)

\* the distance of the observations i and j in the condensed matrix
DistanceOf(matrix, size, i, j) ==
    IF i < j THEN matrix[CondensedIndex(size, i, j)]
    ELSE matrix[CondensedIndex(size, j, i)]

\* the distance of two clusters of observations under a linkage method:
\* the smallest, the largest or the mean distance of their pairs
PairDistances(matrix, size, A, B) ==
    {DistanceOf(matrix, size, i, j) : i \in A, j \in B}

RECURSIVE SumOfPairs(_, _, _)
SumOfPairs(matrix, size, P) ==
    IF P = {} THEN Zero
    ELSE LET p == CHOOSE q \in P :
                    \A o \in P : q[1] < o[1] \/ (q[1] = o[1] /\ q[2] <= o[2])
         IN  FAdd(DistanceOf(matrix, size, p[1], p[2]),
                  SumOfPairs(matrix, size, P \ {p}))

Linkage(method, matrix, size, A, B) ==
    LET ds == PairDistances(matrix, size, A, B) IN
    CASE method = "SINGLE"   -> CHOOSE d \in ds : \A o \in ds : FLe(d, o)
      [] method = "COMPLETE" -> CHOOSE d \in ds : \A o \in ds : FLe(o, d)
      [] method = "AVERAGE"  ->
            FDiv(SumOfPairs(matrix, size, A \X B),
                 FromInt(Cardinality(A) * Cardinality(B)))

\* the smallest element of a cluster of observations
First(A) == CHOOSE i \in A : \A j \in A : i <= j

\* the pairs of clusters hclust_fast can merge next: those of the smallest
\* distance
NextMerges(method, matrix, size, clusters) ==
    LET pairs == {p \in clusters \X clusters : First(p[1]) < First(p[2])}
        link == [p \in pairs |-> Linkage(method, matrix, size, p[1], p[2])]
    IN  {[left |-> p[1], right |-> p[2], height |-> link[p]] :
            p \in {q \in pairs : \A o \in pairs : FLe(link[q], link[o])}}

\* the clusters of the dendrogram after its first steps merges
RECURSIVE ClustersAfter(_, _, _)
ClustersAfter(merge, size, steps) ==
    IF steps = 0 THEN {{i} : i \in 1..size}
    ELSE LET before == ClustersAfter(merge, size, steps - 1)
             m == merge[steps]
         IN  (before \ {m.left, m.right}) \cup {m.left \cup m.right}

\* cutree_k: the labels 0 .. nclust - 1 of the observations when the
\* dendrogram is cut into nclust clusters, the clusters numbered in the
\* order of their first observations
cutree_k(size, merge, nclust) ==
    LET cut == ClustersAfter(merge, size, size - nclust)
        of(i) == CHOOSE A \in cut : i \in A
    IN  [i \in 1..size |->
            Cardinality({A \in cut : First(A) < First(of(i))})]

\* AutomaticCut without the test of the standard deviation
AutomaticCutAnyRise(cdists, size, k, before) ==
    IF \E j \in k..(size - 2) : FGt(cdists[j + 1], Zero)
    THEN CHOOSE j \in k..(size - 2) :
            /\ FGt(cdists[j + 1], Zero)
            /\ \A o \in k..(j - 1) : ~FGt(cdists[o + 1], Zero)
    ELSE size - 1

\* the automatic cut: the loop over k from (triplet_size - 1) / 2.  k is
\* the 0-based index of the code; before is what the slot in front of
\* cdists holds, which the code reads as cdists[k - 1] when k = 0
RECURSIVE AutomaticCut(_, _, _, _)
AutomaticCut(cdists, size, k, before) ==
    IF ~(k < size - 1) THEN k
    ELSE LET previous == IF k = 0 THEN before ELSE cdists[k]
             current  == cdists[k + 1]
         IN  IF /\ FGt(previous, Zero) \/ FGt(current, Orthogonal)
                /\ FGt(current,
                       FAdd(previous, FMul(Two, sd(cdists, k + 1))))
             THEN k
             ELSE AutomaticCut(cdists, size, k + 1, before)

\* the indices of cdists and the sizes given to sd that the loop of the
\* automatic cut reads from the index k on: cdists[k - 1] in every turn,
\* cdists[k] when cdists[k - 1] > 0.0 is false, and cdists[k],
\* cdists[k - 1] and sd(cdists, k + 1) when the first operand of && holds
RECURSIVE AutomaticReads(_, _, _, _)
AutomaticReads(cdists, size, k, before) ==
    IF ~(k < size - 1) THEN [reads |-> {}, sd |-> {}]
    ELSE LET previous == IF k = 0 THEN before ELSE cdists[k]
             current  == cdists[k + 1]
             first    == FGt(previous, Zero) \/ FGt(current, Orthogonal)
             stops    == first /\ FGt(current,
                             FAdd(previous, FMul(Two, sd(cdists, k + 1))))
             here     == [reads |-> {k - 1}
                                     \cup (IF FGt(previous, Zero) THEN {} ELSE {k})
                                     \cup (IF first THEN 0..k ELSE {}),
                          sd |-> IF first THEN {k + 1} ELSE {}]
             rest     == IF stops THEN [reads |-> {}, sd |-> {}]
                         ELSE AutomaticReads(cdists, size, k + 1, before)
         IN  [reads |-> here.reads \cup rest.reads, sd |-> here.sd \cup rest.sd]

\* the indices of cdists read under if (opt_verbose) after the loop left k
VerboseReads(size, k) ==
    (IF k > 0 THEN {k - 1} ELSE {})
        \cup (IF k < size - 1 THEN {k} ELSE {k - 1})

\* the indices of cdists the loop of the fixed threshold reads up to k
FixedReads(size, k) == {j \in 0..k : j < size - 1}

\* FixedCut with > for >=
RECURSIVE FixedCutStrict(_, _, _, _)
FixedCutStrict(cdists, size, k, t) ==
    IF ~(k < size - 1) THEN k
    ELSE IF FGt(cdists[k + 1], t) THEN k
    ELSE FixedCutStrict(cdists, size, k + 1, t)

\* the fixed cut: the loop over k from 0
RECURSIVE FixedCut(_, _, _, _)
FixedCut(cdists, size, k, t) ==
    IF ~(k < size - 1) THEN k
    ELSE IF FLe(t, cdists[k + 1]) THEN k
    ELSE FixedCut(cdists, size, k + 1, t)

\* GenerateClusters with every triplet pushed to the first cluster
GenerateClustersFirst(result, size, cluster_size, labels) ==
    [c \in 1..cluster_size |->
        IF c = 1 THEN [i \in 1..size |-> i - 1] ELSE <<>>]

\* the clusters the two loops at the end of compute_hc append to result:
\* cluster_size empty clusters, then every i pushed to result[labels[i]]
\* in ascending order
GenerateClusters(result, size, cluster_size, labels) ==
    LET old == Len(result)
        grown == result \o [c \in 1..cluster_size |-> <<>>]
    IN  [c \in 1..Len(grown) |->
            grown[c] \o
            Vector(SelectSeq([i \in 1..size |-> i - 1],
                             LAMBDA i : labels[i + 1] = c - 1))]

(***************************************************************************)
(* Inputs of compute_hc.                                                   *)
(***************************************************************************)
MaxHcTriplets == 4

\* a triplet with its points, center and direction
MkTriplet(ia, ib, ic, center, direction) ==
    [point_index_a |-> ia, point_index_b |-> ib, point_index_c |-> ic,
     center |-> center, direction |-> direction, error |-> Zero]

\* triplets on parallel lines y = 0, 1, 5 along x, and one along y
HcTriplets ==
    {MkTriplet(0, 1, 2, Vec(Zero, FromInt(y), Zero), Vec(One, Zero, Zero)) :
        y \in {0, 1, 5}}
    \cup {MkTriplet(0, 1, 2, Vec(Zero, Zero, Zero), Vec(Zero, One, Zero))}

\* six triplets on parallel lines: five next to each other, one far away
LineTriplets(ys) ==
    [j \in 1..Len(ys) |->
        MkTriplet(0, 1, 2, Vec(Zero, FromInt(ys[j]), Zero),
                  Vec(One, Zero, Zero))]

HcLongSequences ==
    {LineTriplets(<<0, 1, 2, 3, 4, 12>>), LineTriplets(<<12, 0, 2, 1, 4, 3>>),
     LineTriplets(<<0, 0, 0, 0, 0, 8>>), LineTriplets(<<0, 1, 2, 3, 4, 5>>)}

RECURSIVE SequencesOver(_, _)
SequencesOver(S, len) ==
    IF len = 0 THEN {<<>>}
    ELSE {Append(q, x) : q \in SequencesOver(S, len - 1), x \in S}

HcSequences ==
    UNION {SequencesOver(HcTriplets, len) : len \in 0..MaxHcTriplets}
    \cup HcLongSequences

HcThresholds == {One, Two, Saturation}

HcMethods == {"SINGLE", "COMPLETE", "AVERAGE"}

\* the options compute_hc and the steps after it read
HcOptions ==
    {[s |-> s, t |-> t, tauto |-> tauto, linkage |-> method,
      m |-> m, dmax |-> dmax, is_dmax |-> is_dmax, gnuplot |-> gnuplot] :
        s \in {One, Two}, t \in HcThresholds, tauto \in BOOLEAN,
        method \in HcMethods, m \in 0..2, dmax \in {Zero, One, Two},
        is_dmax \in BOOLEAN, gnuplot \in BOOLEAN}

\* the local variables of compute_hc at its start, with its argument
\* opt_verbose; reads holds the indices at which cdists was read after
\* hclust_fast and sd the sizes m that sd was called with
HcFrame ==
    [function |-> "compute_hc", opt_verbose |-> 0,
     distance_matrix |-> <<>>, clusters |-> {}, merge |-> <<>>,
     cdists |-> <<>>, k |-> 0, cluster_size |-> 0, labels |-> <<>>,
     reads |-> {}, sd |-> {}]

\* the levels of verbosity
HcVerbosity == 0..1

\* what the slot in front of a heap array can hold
Garbage == {Zero, One, FNeg(One), Saturation, NaN}

TripletsGiven ==
    /\ candidates = <<>>
    /\ trip_k = 0 /\ trip_n = 0 /\ trip_a = Zero /\ point_index_b = 0

HcInit ==
    /\ pc = "compute_hc"
    /\ cloud \in {c \in NewClouds : ~c.ordered}
    /\ tree = <<>>
    /\ triplets \in HcSequences
    /\ TripletsGiven
    /\ cl_group = <<>>
    /\ opt_params \in {o \in HcOptions :
                          /\ o.m = 0 /\ ~o.is_dmax /\ o.dmax = Zero /\ ~o.gnuplot
                          /\ o.tauto => o.t = One}
    /\ frame \in {[HcFrame EXCEPT !.opt_verbose = v] : v \in HcVerbosity}
    /\ SmoothIdle
    /\ MetricIdle

\* the return that would leave one cluster without elements
HcNoTripletsOneCluster ==
    /\ pc = "compute_hc"
    /\ frame.function = "compute_hc"
    /\ Len(triplets) = 0
    /\ cl_group' = Append(cl_group, <<>>)
    /\ pc' = "cleanup_cluster_group"
    /\ UNCHANGED <<cloud, tree, opt_params, frame, smoothVars, tripletVars,
                   metricVars>>

\* if (!triplet_size) return;
HcNoTriplets ==
    /\ pc = "compute_hc"
    /\ frame.function = "compute_hc"
    /\ Len(triplets) = 0
    /\ pc' = "cleanup_cluster_group"
    /\ UNCHANGED <<cloud, tree, smoothVars, tripletVars, metricVars, clusterVars>>

\* the metric and the distance matrix
HcDistances ==
    /\ pc = "compute_hc"
    /\ frame.function = "compute_hc"
    /\ Len(triplets) > 0
    /\ frame' = [frame EXCEPT
                   !.distance_matrix = calculate_distance_matrix(triplets, opt_params.s),
                   !.clusters = {{i} : i \in 1..Len(triplets)}]
    /\ pc' = "hclust_fast"
    /\ UNCHANGED <<cloud, tree, opt_params, cl_group, smoothVars, tripletVars,
                   metricVars>>

\* one merge of hclust_fast
HcMerge ==
    /\ pc = "hclust_fast"
    /\ Cardinality(frame.clusters) > 1
    /\ \E m \in NextMerges(opt_params.linkage, frame.distance_matrix,
                           Len(triplets), frame.clusters) :
          frame' = [frame EXCEPT
                      !.clusters = (@ \ {m.left, m.right})
                                   \cup {m.left \cup m.right},
                      !.merge = Append(@, m),
                      !.cdists = Append(@, m.height)]
    /\ UNCHANGED <<pc, cloud, tree, opt_params, cl_group, smoothVars,
                   tripletVars, metricVars>>

\* the cut of the dendrogram and the clusters
HcCut ==
    /\ pc = "hclust_fast"
    /\ Cardinality(frame.clusters) = 1
    /\ LET triplet_size == Len(triplets)
           start == (triplet_size - 1) \div 2
       IN  \E before \in (IF opt_params.tauto /\ start = 0 /\ start < triplet_size - 1
                          THEN Garbage ELSE {Zero}) :
             LET k == IF opt_params.tauto
                      THEN AutomaticCut(frame.cdists, triplet_size, start, before)
                      ELSE FixedCut(frame.cdists, triplet_size, 0, opt_params.t)
                 cluster_size == triplet_size - k
                 labels == cutree_k(triplet_size, frame.merge, cluster_size)
                 read == IF opt_params.tauto
                         THEN AutomaticReads(frame.cdists, triplet_size,
                                             start, before)
                         ELSE [reads |-> FixedReads(triplet_size, k), sd |-> {}]
                 verbose == IF opt_params.tauto /\ frame.opt_verbose # 0
                            THEN VerboseReads(triplet_size, k) ELSE {}
             IN  /\ frame' = [frame EXCEPT !.k = k,
                                           !.cluster_size = cluster_size,
                                           !.labels = labels,
                                           !.reads = read.reads \cup verbose,
                                           !.sd = read.sd]
                 /\ cl_group' = GenerateClusters(cl_group, triplet_size,
                                                 cluster_size, labels)
    /\ pc' = "cleanup_cluster_group"
    /\ UNCHANGED <<cloud, tree, opt_params, smoothVars, tripletVars, metricVars>>

HcNext == HcNoTriplets \/ HcDistances \/ HcMerge \/ HcCut

HcSpec == HcInit /\ [][HcNext]_vars

(***************************************************************************)
(* Properties of compute_hc.                                               *)
(***************************************************************************)
\* compute_hc has returned
Clustered == pc = "cleanup_cluster_group" /\ frame.function = "compute_hc"

\* the elements of a cluster
Members(cluster) == {cluster[j] : j \in 1..Len(cluster)}

\* C11: after compute_hc on a non-empty sequence T of triplets, into an
\* empty group, the group has |T| - k clusters for the cut index k, no
\* cluster is empty, the clusters are pairwise disjoint and every index
\* 0 .. |T| - 1 is in exactly one cluster, once.
C11_ClustersPartitionTriplets ==
    (Clustered /\ Len(triplets) > 0) =>
        /\ Len(cl_group) = Len(triplets) - frame.k
        /\ \A c \in 1..Len(cl_group) :
              /\ cl_group[c] # <<>>
              /\ Cardinality(Members(cl_group[c])) = Len(cl_group[c])
        /\ \A c, e \in 1..Len(cl_group) :
              c # e => Members(cl_group[c]) \cap Members(cl_group[e]) = {}
        /\ UNION {Members(cl_group[c]) : c \in 1..Len(cl_group)}
              = 0..(Len(triplets) - 1)

\* a cut into more than one cluster, one of them of several triplets that
\* are not neighbours in T
C11_Witness ==
    /\ Clustered
    /\ Len(cl_group) > 1
    /\ \E c \in 1..Len(cl_group) :
          /\ Len(cl_group[c]) > 1
          /\ \E j \in 1..(Len(cl_group[c]) - 1) :
                cl_group[c][j + 1] > cl_group[c][j] + 1

\* the indices k in [0, |T| - 1) with cdists[k] >= t
ReachingThreshold ==
    {j \in 0..(Len(triplets) - 2) : FLe(opt_params.t, frame.cdists[j + 1])}

\* C12: with a fixed threshold t, k is the smallest index in [0, |T| - 1)
\* with cdists[k] >= t and there are |T| - k clusters; when no merge
\* distance reaches t, k = |T| - 1 and there is one cluster; when
\* cdists[0] >= t, k = 0 and every triplet is a cluster of its own.
C12_FixedThresholdCut ==
    (Clustered /\ Len(triplets) > 0 /\ ~opt_params.tauto) =>
        /\ ReachingThreshold # {} =>
              /\ frame.k \in ReachingThreshold
              /\ \A j \in ReachingThreshold : frame.k <= j
        /\ ReachingThreshold = {} =>
              /\ frame.k = Len(triplets) - 1
              /\ Len(cl_group) = 1
        /\ Len(cl_group) = Len(triplets) - frame.k
        /\ 0 \in ReachingThreshold =>
              /\ frame.k = 0
              /\ Len(cl_group) = Len(triplets)
              /\ \A c \in 1..Len(cl_group) : cl_group[c] = <<c - 1>>

\* a cut inside the dendrogram at a merge distance that equals t
C12_Witness ==
    /\ Clustered
    /\ ~opt_params.tauto
    /\ 0 < frame.k /\ frame.k < Len(triplets) - 1
    /\ FEq(frame.cdists[frame.k + 1], opt_params.t)

\* the stopping criterion of the automatic cut at the index k, with before
\* for cdists[k - 1] when k = 0
StopsAt(k, before) ==
    LET previous == IF k = 0 THEN before ELSE frame.cdists[k]
        current  == frame.cdists[k + 1]
    IN  /\ FGt(previous, Zero) \/ FGt(current, Orthogonal)
        /\ FGt(current, FAdd(previous, FMul(Two, sd(frame.cdists, k + 1))))

\* C13: in automatic mode k is the first index from floor((|T| - 1) / 2)
\* below |T| - 1 at which (cdists[k-1] > 0 or cdists[k] > 1e-8) and
\* cdists[k] > cdists[k-1] + 2 sd(cdists[0..k]); without such an index
\* k = |T| - 1; there are |T| - k clusters; for every |T| >= 1.
C13_AutomaticCut ==
    (Clustered /\ Len(triplets) > 0 /\ opt_params.tauto) =>
        LET scan == ((Len(triplets) - 1) \div 2)..(Len(triplets) - 2)
        IN  /\ \E before \in Garbage :
                 LET stops == {j \in scan : StopsAt(j, before)}
                 IN  /\ stops # {} =>
                           /\ frame.k \in stops
                           /\ \A j \in stops : frame.k <= j
                     /\ stops = {} => frame.k = Len(triplets) - 1
            /\ Len(cl_group) = Len(triplets) - frame.k

\* the scan stops before the last index
C13_Witness ==
    /\ Clustered
    /\ opt_params.tauto
    /\ frame.k < Len(triplets) - 1
    /\ frame.k > (Len(triplets) - 1) \div 2
    /\ Len(cl_group) > 1

(***************************************************************************)
(* cluster_triplets_to_points (cluster.cpp)                                *)
(***************************************************************************)
\* std::sort of a vector of indices: a sequence with x put in its place
RECURSIVE SortedInsert(_, _)
SortedInsert(sorted, x) ==
    IF sorted = <<>> THEN <<x>>
    ELSE IF x <= Head(sorted) THEN <<x>> \o sorted
    ELSE <<Head(sorted)>> \o SortedInsert(Tail(sorted), x)

RECURSIVE SortIndices(_)
SortIndices(q) ==
    IF q = <<>> THEN <<>>
    ELSE SortedInsert(SortIndices(Tail(q)), Head(q))

\* std::unique and the resize: of equal neighbours the first is kept
RECURSIVE Unique(_)
Unique(q) ==
    IF Len(q) < 2 THEN q
    ELSE IF q[1] = q[2] THEN Unique(Tail(q))
    ELSE <<q[1]>> \o Unique(Tail(q))

\* the three push_backs for every triplet of the cluster
RECURSIVE PointIndices(_, _)
PointIndices(trips, cluster) ==
    IF cluster = <<>> THEN <<>>
    ELSE LET current_triplet == trips[Head(cluster) + 1]
         IN  <<current_triplet.point_index_a, current_triplet.point_index_b,
               current_triplet.point_index_c>>
             \o PointIndices(trips, Tail(cluster))

\* PointCluster without std::unique
PointClusterSorted(trips, cluster) == SortIndices(PointIndices(trips, cluster))

\* the body of the loop: the point cluster that replaces a triplet cluster
PointCluster(trips, cluster) ==
    Unique(SortIndices(PointIndices(trips, cluster)))

(***************************************************************************)
(* Inputs of cluster_triplets_to_points.                                   *)
(***************************************************************************)
MaxProjTriplets == 2

\* the points a, b, c of the triplets
ProjPoints == {<<0, 1, 2>>, <<1, 2, 3>>, <<4, 2, 0>>, <<3, 3, 1>>}

ProjTriplets ==
    {MkTriplet(p[1], p[2], p[3], Vec(Zero, Zero, Zero), Vec(One, Zero, Zero)) :
        p \in ProjPoints}

ProjGroupSizes == 0..2

\* the groups of clusters of at most maxlen indices below size
GroupsOver(size, maxlen, sizes) ==
    LET clusters == UNION {SequencesOver(0..(size - 1), len) : len \in 0..maxlen}
    IN  UNION {SequencesOver(clusters, len) : len \in sizes}

ProjFrame(group) == [function |-> "cluster_triplets_to_points", i |-> 0,
                     cl_group |-> group]

ProjInit ==
    /\ pc = "cluster_triplets_to_points"
    /\ cloud \in {c \in NewClouds : ~c.ordered}
    /\ tree = <<>>
    /\ triplets \in UNION {SequencesOver(ProjTriplets, len) :
                             len \in 1..MaxProjTriplets}
    /\ TripletsGiven
    /\ opt_params = NoOptions
    /\ cl_group \in GroupsOver(Len(triplets), MaxProjTriplets, ProjGroupSizes)
    /\ frame = ProjFrame(cl_group)
    /\ SmoothIdle
    /\ MetricIdle

\* cluster_triplets_to_points is entered from main
ProjEnter ==
    /\ pc = "cluster_triplets_to_points"
    /\ frame.function # "cluster_triplets_to_points"
    /\ frame' = ProjFrame(cl_group)
    /\ UNCHANGED <<pc, cloud, tree, opt_params, cl_group, smoothVars,
                   tripletVars, metricVars>>

\* the body of the loop for cl_group[i]
ProjCluster ==
    /\ pc = "cluster_triplets_to_points"
    /\ frame.function = "cluster_triplets_to_points"
    /\ frame.i < Len(cl_group)
    /\ cl_group' = [cl_group EXCEPT ![frame.i + 1] = PointCluster(triplets, @)]
    /\ frame' = [frame EXCEPT !.i = @ + 1]
    /\ UNCHANGED <<pc, cloud, tree, opt_params, smoothVars, tripletVars,
                   metricVars>>

ProjReturn ==
    /\ pc = "cluster_triplets_to_points"
    /\ frame.function = "cluster_triplets_to_points"
    /\ frame.i = Len(cl_group)
    /\ pc' = "is_dmax"
    /\ UNCHANGED <<cloud, tree, smoothVars, tripletVars, metricVars, clusterVars>>

ProjNext == ProjCluster \/ ProjReturn

ProjSpec == ProjInit /\ [][ProjNext]_vars

(***************************************************************************)
(* Properties of cluster_triplets_to_points.                               *)
(***************************************************************************)
Projected == pc = "is_dmax" /\ frame.function = "cluster_triplets_to_points"

\* the points of the triplets of a cluster of triplet indices
PointsOfTriplets(cluster) ==
    UNION {{triplets[j + 1].point_index_a, triplets[j + 1].point_index_b,
            triplets[j + 1].point_index_c} : j \in Members(cluster)}

StrictlyAscending(q) == \A j \in 1..(Len(q) - 1) : q[j] < q[j + 1]

\* C15: cluster_triplets_to_points replaces every cluster K of triplet
\* indices by the point indices a, b, c of its triplets, strictly
\* ascending; the number and the order of the clusters do not change.
C15_ProjectionToPoints ==
    Projected =>
        /\ Len(cl_group) = Len(frame.cl_group)
        /\ \A c \in 1..Len(cl_group) :
              /\ Members(cl_group[c]) = PointsOfTriplets(frame.cl_group[c])
              /\ StrictlyAscending(cl_group[c])

\* a cluster of two triplets that share a point, the first of them with
\* its points not in ascending order, in a group of two different clusters
C15_Witness ==
    /\ Projected
    /\ Len(cl_group) = 2
    /\ cl_group[1] # cl_group[2]
    /\ \E c \in 1..Len(cl_group) :
          /\ Len(frame.cl_group[c]) = 2
          /\ Len(cl_group[c]) \in 4..5
          /\ LET first == triplets[frame.cl_group[c][1] + 1]
             IN  first.point_index_a > first.point_index_b

(***************************************************************************)
(* cleanup_cluster_group (cluster.cpp)                                     *)
(***************************************************************************)
\* cl_group.erase(it): the group without the cluster at the 0-based
\* position it
Erase(group, it) ==
    [c \in 1..(Len(group) - 1) |-> IF c <= it THEN group[c] ELSE group[c + 1]]

\* main calls cleanup_cluster_group(cl_group, opt_params.get_m(), opt_verbose)
CleanupEnter ==
    /\ pc = "cleanup_cluster_group"
    /\ frame.function # "cleanup_cluster_group"
    /\ frame' = [function |-> "cleanup_cluster_group", m |-> opt_params.m,
                 it |-> 0, cl_group |-> cl_group]
    /\ UNCHANGED <<pc, cloud, tree, opt_params, cl_group, smoothVars,
                   tripletVars, metricVars>>

\* the loop turn that would also remove the clusters of exactly m elements
CleanupTurnAtMost(group, m, it) ==
    IF Len(group[it + 1]) <= m
    THEN [group |-> Erase(group, it), it |-> it]
    ELSE [group |-> group, it |-> it + 1]

\* one turn of the while loop with the test as it is in the code
CleanupTurn(group, m, it) ==
    IF Len(group[it + 1]) < m
    THEN [group |-> Erase(group, it), it |-> it]
    ELSE [group |-> group, it |-> it + 1]

CleanupStep ==
    /\ pc = "cleanup_cluster_group"
    /\ frame.function = "cleanup_cluster_group"
    /\ frame.it < Len(cl_group)
    /\ LET turn == CleanupTurn(cl_group, frame.m, frame.it)
       IN  /\ cl_group' = turn.group
           /\ frame' = [frame EXCEPT !.it = turn.it]
    /\ UNCHANGED <<pc, cloud, tree, opt_params, smoothVars, tripletVars,
                   metricVars>>

CleanupReturn ==
    /\ pc = "cleanup_cluster_group"
    /\ frame.function = "cleanup_cluster_group"
    /\ frame.it = Len(cl_group)
    /\ pc' = "cluster_triplets_to_points"
    /\ UNCHANGED <<cloud, tree, smoothVars, tripletVars, metricVars, clusterVars>>

(***************************************************************************)
(* Splitting of clusters at gaps (graph.cpp).  Vertices are the 0-based    *)
(* positions of a cluster's point indices; an edge is a record of its two  *)
(* vertices and its weight, the squared distance of the two points.        *)
(***************************************************************************)
Edge(src, dest, weight) == [src |-> src, dest |-> dest, weight |-> weight]

\* the edges between all pairs of vertices, before they are sorted
AllEdges(points, cluster) ==
    {Edge(vertex1, vertex2,
          squared_norm(VSub(points[cluster[vertex2 + 1] + 1],
                            points[cluster[vertex1 + 1] + 1]))) :
        <<vertex1, vertex2>> \in
            {pr \in (0..(Len(cluster) - 1)) \X (0..(Len(cluster) - 1)) :
                pr[1] < pr[2]}}

\* std::sort with Edge::operator<: every order of the edges in which no
\* edge comes before an edge of smaller weight (the order of edges of equal
\* weight is not determined)
RECURSIVE SortedEdges(_)
SortedEdges(S) ==
    IF S = {} THEN {<<>>}
    ELSE UNION {{<<e>> \o rest : rest \in SortedEdges(S \ {e})} :
                  e \in {e1 \in S : \A e2 \in S : ~FLt(e2.weight, e1.weight)}}

create_edges(points, cluster) == SortedEdges(AllEdges(points, cluster))

\* Kruskal's algorithm over the sorted edges from position n on; groups
\* maps a vertex to its group
RECURSIVE MstFrom(_, _, _, _)
MstFrom(edges, n, groups, mst_edges) ==
    IF n > Len(edges) THEN mst_edges
    ELSE LET e == edges[n]
             group_a == groups[e.src]
             group_b == groups[e.dest]
         IN  IF group_a # group_b
             THEN MstFrom(edges, n + 1,
                          [v \in DOMAIN groups |->
                              IF groups[v] = group_b THEN group_a
                              ELSE groups[v]],
                          Append(mst_edges, e))
             ELSE MstFrom(edges, n + 1, groups, mst_edges)

\* the spanning tree taken as the first vcount - 1 edges, with no look at
\* the groups
mstWithoutGroups(edges, vcount) ==
    SubSeq(edges, 1, IF Len(edges) < vcount - 1 THEN Len(edges) ELSE vcount - 1)

mst(edges, vcount) ==
    MstFrom(edges, 1, [v \in 0..(vcount - 1) |-> v], <<>>)

\* the removal that would also take the edges of weight exactly dmax^2
remove_edgeAtLeast(edges, dmax) ==
    SelectSeq(edges, LAMBDA edge : ~FGt(edge.weight, FMul(dmax, dmax))
                                   /\ ~FEq(edge.weight, FMul(dmax, dmax)))

remove_edge(edges, dmax) ==
    SelectSeq(edges, LAMBDA edge : ~FGt(edge.weight, FMul(dmax, dmax)))

RECURSIVE AdjFrom(_, _, _)
AdjFrom(edges, n, adj) ==
    IF n > Len(edges) THEN adj
    ELSE LET e == edges[n]
             a1 == [adj EXCEPT ![e.src] = Append(@, e.dest)]
         IN  AdjFrom(edges, n + 1, [a1 EXCEPT ![e.dest] = Append(@, e.src)])

create_adj(vcount, edges) ==
    AdjFrom(edges, 1, [v \in 0..(vcount - 1) |-> <<>>])

\* the neighbours in list that are not visited, in the order of the list
Unvisited(list, visited) == SelectSeq(list, LAMBDA w : ~visited[w])

\* the while loop of dfs_util; the top of the stack is its last element
RECURSIVE DfsLoop(_, _, _, _, _)
DfsLoop(stack, visited, new_cluster, cluster, adj) ==
    IF stack = <<>> THEN [new_cluster |-> new_cluster, visited |-> visited]
    ELSE LET v == stack[Len(stack)]
             seen == [visited EXCEPT ![v] = TRUE]
         IN  DfsLoop(SubSeq(stack, 1, Len(stack) - 1) \o Unvisited(adj[v], seen),
                     seen, Append(new_cluster, cluster[v + 1]), cluster, adj)

dfs_util(vertex, visited, cluster, adj) ==
    DfsLoop(<<vertex>>, visited, <<>>, cluster, adj)

\* the test without the exception for a cluster that lost no edge
EmitsBySize(new_cluster, min_size, n_removed) == Len(new_cluster) >= min_size

\* the test of max_step that decides whether a component is returned
Emits(new_cluster, min_size, n_removed) ==
    Len(new_cluster) >= min_size \/ n_removed = 0


(***************************************************************************)
(* The loop of main over the clusters, with max_step called for each.      *)
(* The frame holds main's cleaned_up_cluster_group and the position cl of  *)
(* its iterator, and the arguments and locals of the call of max_step      *)
(* under way; at is the position in the loop and in max_step; mst is the   *)
(* spanning tree as computed, before edges are removed, first is the size  *)
(* of new_clusters when max_step was called, and new_cluster holds every   *)
(* value the local new_cluster had after dfs_util in the call, in order.   *)
(***************************************************************************)
MaxStepFrame ==
    [function |-> "max_step", at |-> "for", cl |-> 0,
     cleaned_up_cluster_group |-> <<>>, first |-> 0,
     cluster |-> <<>>, dmax |-> Zero, min_size |-> 0,
     mst |-> <<>>, mst_edges |-> <<>>, n_removed |-> 0,
     adj |-> <<>>, visited |-> <<>>, v |-> 0, new_cluster |-> <<>>]

\* if (opt_params.is_dmax()), taken
GapsRequested ==
    /\ pc = "is_dmax"
    /\ opt_params.is_dmax
    /\ pc' = "max_step"
    /\ frame' = MaxStepFrame
    /\ UNCHANGED <<cloud, tree, opt_params, cl_group, smoothVars, tripletVars,
                   metricVars>>

\* the test that would look at dmax when is_dmax is false
GapsNotRequestedUnlessDmax ==
    /\ pc = "is_dmax"
    /\ ~opt_params.is_dmax
    /\ IF FEq(opt_params.dmax, Zero)
       THEN pc' = "add_clusters" /\ UNCHANGED frame
       ELSE pc' = "max_step" /\ frame' = MaxStepFrame
    /\ UNCHANGED <<cloud, tree, opt_params, cl_group, smoothVars, tripletVars,
                   metricVars>>

\* if (opt_params.is_dmax()), not taken
GapsNotRequested ==
    /\ pc = "is_dmax"
    /\ ~opt_params.is_dmax
    /\ pc' = "add_clusters"
    /\ UNCHANGED <<cloud, tree, smoothVars, tripletVars, metricVars, clusterVars>>

\* the call of max_step for *cl, up to the spanning tree
MaxStepCall ==
    /\ pc = "max_step" /\ frame.at = "for"
    /\ frame.cl < Len(cl_group)
    /\ LET cluster == cl_group[frame.cl + 1]
       IN  \E edges \in create_edges(cloud.pts, cluster) :
              LET tree_edges == mst(edges, Len(cluster))
              IN  frame' = [frame EXCEPT
                      !.at = "remove_edge",
                      !.first = Len(frame.cleaned_up_cluster_group),
                      !.cluster = cluster,
                      !.dmax = opt_params.dmax,
                      !.min_size = opt_params.m + 2,
                      !.mst = tree_edges,
                      !.mst_edges = tree_edges,
                      !.n_removed = Len(tree_edges),
                      !.new_cluster = <<>>]
    /\ UNCHANGED <<pc, cloud, tree, opt_params, cl_group, smoothVars,
                   tripletVars, metricVars>>

\* remove_edge, the count of the removed edges and create_adj
MaxStepRemove ==
    /\ pc = "max_step" /\ frame.at = "remove_edge"
    /\ LET kept == remove_edge(frame.mst_edges, frame.dmax)
           vcount == Len(frame.cluster)
       IN  frame' = [frame EXCEPT
               !.at = "components",
               !.mst_edges = kept,
               !.n_removed = @ - Len(kept),
               !.adj = create_adj(vcount, kept),
               !.visited = [w \in 0..(vcount - 1) |-> FALSE],
               !.v = 0]
    /\ UNCHANGED <<pc, cloud, tree, opt_params, cl_group, smoothVars,
                   tripletVars, metricVars>>

\* one turn of the loop over the vertices
MaxStepComponent ==
    /\ pc = "max_step" /\ frame.at = "components"
    /\ frame.v < Len(frame.cluster)
    /\ IF frame.visited[frame.v]
       THEN frame' = [frame EXCEPT !.v = @ + 1]
       ELSE LET found == dfs_util(frame.v, frame.visited, frame.cluster,
                                  frame.adj)
            IN  frame' = [frame EXCEPT
                    !.v = @ + 1,
                    !.visited = found.visited,
                    !.new_cluster = Append(@, found.new_cluster),
                    !.cleaned_up_cluster_group =
                        IF Emits(found.new_cluster, frame.min_size,
                                 frame.n_removed)
                        THEN Append(@, found.new_cluster) ELSE @]
    /\ UNCHANGED <<pc, cloud, tree, opt_params, cl_group, smoothVars,
                   tripletVars, metricVars>>

\* max_step returns and main's iterator advances
MaxStepReturn ==
    /\ pc = "max_step" /\ frame.at = "components"
    /\ frame.v = Len(frame.cluster)
    /\ frame' = [frame EXCEPT !.at = "for", !.cl = @ + 1]
    /\ UNCHANGED <<pc, cloud, tree, opt_params, cl_group, smoothVars,
                   tripletVars, metricVars>>

\* cl_group = cleaned_up_cluster_group
GapsAssign ==
    /\ pc = "max_step" /\ frame.at = "for"
    /\ frame.cl = Len(cl_group)
    /\ cl_group' = frame.cleaned_up_cluster_group
    /\ pc' = "add_clusters"
    /\ UNCHANGED <<cloud, tree, opt_params, frame, smoothVars, tripletVars,
                   metricVars>>

(***************************************************************************)
(* Inputs of the splitting: a cloud of MaxStepPoints points in the plane   *)
(* and clusters of at least three of them (a cluster of points comes from  *)
(* at least one triplet), strictly ascending.                              *)
(***************************************************************************)
MaxStepPoints == 4

MaxStepPositions == {<<0, 0, 0>>, <<1, 0, 0>>, <<2, 0, 0>>, <<0, 1, 0>>}

MaxStepClouds ==
    {[pts |-> [j \in 1..MaxStepPoints |-> PointAt(ps[j], j - 1)],
      cap |-> MaxStepPoints, points2d |-> FALSE, ordered |-> FALSE] :
        ps \in [1..MaxStepPoints -> MaxStepPositions]}

\* the strictly ascending sequence of the indices in S
RECURSIVE Ascending(_)
Ascending(S) ==
    IF S = {} THEN <<>>
    ELSE LET least == CHOOSE i \in S : \A j \in S : i <= j
         IN  <<least>> \o Ascending(S \ {least})

MaxStepClusters ==
    {Ascending(S) : S \in {S1 \in SUBSET (0..(MaxStepPoints - 1)) :
                              Cardinality(S1) >= 3}}

\* one cluster, or all points after their first three
MaxStepGroups ==
    {<<c>> : c \in MaxStepClusters}
        \cup {<<Ascending(0..(MaxStepPoints - 1)), <<0, 1, 2>>>>}

MaxStepInit ==
    /\ pc = "is_dmax"
    /\ cloud \in MaxStepClouds
    /\ tree = <<>>
    /\ opt_params \in {o \in HcOptions :
            /\ o.is_dmax /\ ~o.gnuplot /\ ~o.tauto
            /\ o.s = One /\ o.t = One /\ o.linkage = "SINGLE"}
    /\ cl_group \in MaxStepGroups
    /\ frame = NoFrame
    /\ SmoothIdle
    /\ TripletIdle
    /\ MetricIdle

MaxStepNext ==
    \/ GapsRequested
    \/ MaxStepCall
    \/ MaxStepRemove
    \/ MaxStepComponent
    \/ MaxStepReturn
    \/ GapsAssign

MaxStepSpec == MaxStepInit /\ [][MaxStepNext]_vars


(***************************************************************************)
(* Properties of max_step.                                                 *)
(***************************************************************************)
\* max_step has returned from its latest call
MaxStepReturned ==
    frame.function = "max_step" /\ frame.at = "for" /\ frame.cl > 0

\* the clusters the latest call of max_step appended to new_clusters
EmittedClusters ==
    {frame.cleaned_up_cluster_group[j] :
        j \in (frame.first + 1)..Len(frame.cleaned_up_cluster_group)}

Dmax2 == FMul(frame.dmax, frame.dmax)

MstEdges == {frame.mst[j] : j \in 1..Len(frame.mst)}

\* the two points an edge joins
Ends(e) == {frame.cluster[e.src + 1], frame.cluster[e.dest + 1]}

RECURSIVE Connected(_)
Connected(S) ==
    LET T == S \cup UNION {Ends(e) : e \in {e1 \in MstEdges :
                              /\ ~FGt(e1.weight, Dmax2)
                              /\ Ends(e1) \cap S # {}}}
    IN  IF T = S THEN S ELSE Connected(T)

\* the connected components that are left of the tree
Components == {Connected({p}) : p \in Members(frame.cluster)}

\* the sets of points of the emitted clusters
EmittedSets == {Members(c) : c \in EmittedClusters}

\* C18: when max_step deleted at least one edge of the tree it emits
\* exactly the components of at least m + 2 points; when it deleted none it
\* emits the one component of all points, whatever its size.
C18_EmittedComponents ==
    MaxStepReturned =>
        /\ Cardinality(EmittedSets) = Cardinality(EmittedClusters)
        /\ \A c \in EmittedClusters : Cardinality(Members(c)) = Len(c)
        /\ IF \E e \in MstEdges : FGt(e.weight, Dmax2)
           THEN EmittedSets =
                   {K \in Components : Cardinality(K) >= opt_params.m + 2}
           ELSE /\ EmittedSets = {Members(frame.cluster)}
                /\ Cardinality(EmittedClusters) = 1

\* the second of two calls: the first deleted an edge and emitted nothing,
\* the second deleted none and emitted a cluster of fewer than m + 2 points
C18_Witness ==
    /\ MaxStepReturned
    /\ frame.cl = 2 /\ frame.first = 0
    /\ frame.n_removed = 0
    /\ Len(frame.cluster) < opt_params.m + 2
    /\ EmittedClusters = {frame.cluster}


(***************************************************************************)
(* add_clusters (cluster.cpp)                                              *)
(***************************************************************************)
\* the insertion that would keep only the latest id of a point
InsertIdReplacing(points, cluster, i) ==
    [j \in 1..Len(points) |->
        IF (j - 1) \in Members(cluster)
        THEN [points[j] EXCEPT !.cluster_ids = {i}] ELSE points[j]]

\* the inner loop: cloud[*point_index].cluster_ids.insert(i) for the points
\* of the cluster at position i
InsertId(points, cluster, i) ==
    [j \in 1..Len(points) |->
        IF (j - 1) \in Members(cluster)
        THEN [points[j] EXCEPT !.cluster_ids = @ \cup {i}] ELSE points[j]]

\* the search that would take a vertex for the same one when it has as
\* many ids
AddVertexBySize(verticies, points, i) ==
    LET same(v) == Cardinality(points[v[1] + 1].cluster_ids) =
                       Cardinality(points[i + 1].cluster_ids)
    IN  IF \E n \in 1..Len(verticies) : same(verticies[n])
        THEN [n \in 1..Len(verticies) |->
                 IF same(verticies[n]) THEN Append(verticies[n], i)
                 ELSE verticies[n]]
        ELSE Append(verticies, <<i>>)

\* the point i is added to every vertex whose first point has the same id
\* set, or to a new vertex when there is none
AddVertex(verticies, points, i) ==
    LET same(v) == points[v[1] + 1].cluster_ids = points[i + 1].cluster_ids
    IN  IF \E n \in 1..Len(verticies) : same(verticies[n])
        THEN [n \in 1..Len(verticies) |->
                 IF same(verticies[n]) THEN Append(verticies[n], i)
                 ELSE verticies[n]]
        ELSE Append(verticies, <<i>>)

\* the erase-remove idiom for the clusters named in ids
RemovePoint(group, ids, i) ==
    [n \in 1..Len(group) |->
        IF (n - 1) \in ids THEN SelectSeq(group[n], LAMBDA q : q # i)
        ELSE group[n]]

\* main calls add_clusters(cloud_xyz, cl_group, opt_params.is_gnuplot());
\* the frame keeps the group as it was passed
AddClustersEnter ==
    /\ pc = "add_clusters"
    /\ frame.function # "add_clusters"
    /\ frame' = [function |-> "add_clusters", at |-> "ids", i |-> 0,
                 gnuplot |-> opt_params.gnuplot, cl_group |-> cl_group,
                 verticies |-> <<>>]
    /\ UNCHANGED <<pc, cloud, tree, opt_params, cl_group, smoothVars,
                   tripletVars, metricVars>>

\* one turn of the loop over the clusters
AddClustersIds ==
    /\ pc = "add_clusters"
    /\ frame.function = "add_clusters" /\ frame.at = "ids"
    /\ frame.i < Len(cl_group)
    /\ cloud' = [cloud EXCEPT
                    !.pts = InsertId(@, cl_group[frame.i + 1], frame.i)]
    /\ frame' = [frame EXCEPT !.i = @ + 1]
    /\ UNCHANGED <<pc, tree, opt_params, cl_group, smoothVars, tripletVars,
                   metricVars>>

\* if (gnuplot), not taken: add_clusters returns
AddClustersReturn ==
    /\ pc = "add_clusters"
    /\ frame.function = "add_clusters" /\ frame.at = "ids"
    /\ frame.i = Len(cl_group)
    /\ ~frame.gnuplot
    /\ pc' = "output"
    /\ UNCHANGED <<cloud, tree, smoothVars, tripletVars, metricVars, clusterVars>>

\* if (gnuplot), taken
AddClustersGnuplot ==
    /\ pc = "add_clusters"
    /\ frame.function = "add_clusters" /\ frame.at = "ids"
    /\ frame.i = Len(cl_group)
    /\ frame.gnuplot
    /\ frame' = [frame EXCEPT !.at = "verticies", !.i = 0]
    /\ UNCHANGED <<pc, cloud, tree, opt_params, cl_group, smoothVars,
                   tripletVars, metricVars>>

\* one turn of the loop over the points of the cloud
AddClustersVertex ==
    /\ pc = "add_clusters"
    /\ frame.function = "add_clusters" /\ frame.at = "verticies"
    /\ frame.i < Len(cloud.pts)
    /\ LET p == cloud.pts[frame.i + 1]
       IN  IF Cardinality(p.cluster_ids) > 1
           THEN /\ frame' = [frame EXCEPT
                       !.i = @ + 1,
                       !.verticies = AddVertex(@, cloud.pts, frame.i)]
                /\ cl_group' = RemovePoint(cl_group, p.cluster_ids, frame.i)
           ELSE /\ frame' = [frame EXCEPT !.i = @ + 1]
                /\ UNCHANGED cl_group
    /\ UNCHANGED <<pc, cloud, tree, opt_params, smoothVars, tripletVars,
                   metricVars>>

\* the group is extended with the verticies and add_clusters returns
AddClustersExtend ==
    /\ pc = "add_clusters"
    /\ frame.function = "add_clusters" /\ frame.at = "verticies"
    /\ frame.i = Len(cloud.pts)
    /\ cl_group' = cl_group \o frame.verticies
    /\ pc' = "output"
    /\ UNCHANGED <<cloud, tree, opt_params, frame, smoothVars, tripletVars,
                   metricVars>>

(***************************************************************************)
(* Inputs of add_clusters: a cloud of AddPoints points without cluster     *)
(* ids, and groups of clusters of at least two of them, strictly           *)
(* ascending (what the projection and the splitting leave).                *)
(***************************************************************************)
AddPoints == 4

AddClouds ==
    {[pts |-> [j \in 1..AddPoints |-> PointAt(<<j, 0, 0>>, j - 1)],
      cap |-> AddPoints, points2d |-> FALSE, ordered |-> FALSE]}

AddClusters ==
    {Ascending(S) : S \in {S1 \in SUBSET (0..(AddPoints - 1)) :
                              Cardinality(S1) >= 2}}

AddGroupSizes == 0..3

AddClustersInit ==
    /\ pc = "add_clusters"
    /\ cloud \in AddClouds
    /\ tree = <<>>
    /\ opt_params \in {o \in HcOptions :
            /\ ~o.is_dmax /\ o.dmax = Zero /\ o.m = 0 /\ ~o.tauto
            /\ o.s = One /\ o.t = One /\ o.linkage = "SINGLE"}
    /\ cl_group \in UNION {SequencesOver(AddClusters, len) :
                              len \in AddGroupSizes}
    /\ frame = NoFrame
    /\ SmoothIdle
    /\ TripletIdle
    /\ MetricIdle

AddClustersNext ==
    \/ AddClustersEnter
    \/ AddClustersIds
    \/ AddClustersReturn
    \/ AddClustersGnuplot
    \/ AddClustersVertex
    \/ AddClustersExtend

AddClustersSpec == AddClustersInit /\ [][AddClustersNext]_vars

(***************************************************************************)
(* Properties of add_clusters.                                             *)
(***************************************************************************)
\* the loop that inserts the ids is over
IdsAdded ==
    /\ frame.function = "add_clusters"
    /\ frame.at = "verticies" \/ frame.i = Len(frame.cl_group)

\* the ids of the point of index q
IdsOf(q) == cloud.pts[q + 1].cluster_ids

\* C19: after add_clusters on a cloud whose id sets were all empty, the id
\* set of every point is the set of the positions of the clusters of the
\* group, as it was passed, that contain it: empty for a point in no
\* cluster, all their ids for a point in several.
C19_IdsOfClusters ==
    IdsAdded =>
        \A q \in 0..(Len(cloud.pts) - 1) :
            IdsOf(q) = {i \in 0..(Len(frame.cl_group) - 1) :
                           q \in Members(frame.cl_group[i + 1])}

\* add_clusters has returned with a point in no cluster and a point in two
C19_Witness ==
    /\ pc = "output" /\ IdsAdded
    /\ \E q \in 0..(Len(cloud.pts) - 1) : IdsOf(q) = {}
    /\ \E q \in 0..(Len(cloud.pts) - 1) : Cardinality(IdsOf(q)) = 2

\* add_clusters has returned after the part for gnuplot
Overlapped ==
    pc = "output" /\ frame.function = "add_clusters" /\ frame.gnuplot

\* the positions in cl_group of the clusters that were passed, and of the
\* clusters that were appended
OriginalRange == 1..Len(frame.cl_group)

OverlapRange == (Len(frame.cl_group) + 1)..Len(cl_group)

\* C20: after add_clusters with the output for gnuplot requested, (i) the
\* clusters in the original index range are pairwise disjoint and contain
\* only points with exactly one id, and (ii) the appended clusters contain
\* together exactly the points with more than one id, each of them in
\* exactly one appended cluster and once, and two such points are in the
\* same appended cluster iff their id sets are equal.
C20_OverlapClusters ==
    Overlapped =>
        /\ Len(cl_group) >= Len(frame.cl_group)
        /\ \A m \in OriginalRange, n \in OriginalRange :
              m # n => Members(cl_group[m]) \cap Members(cl_group[n]) = {}
        /\ \A m \in OriginalRange : \A q \in Members(cl_group[m]) :
              Cardinality(IdsOf(q)) = 1
        /\ UNION {Members(cl_group[n]) : n \in OverlapRange} =
              {q \in 0..(Len(cloud.pts) - 1) : Cardinality(IdsOf(q)) > 1}
        /\ \A m \in OverlapRange, n \in OverlapRange :
              m # n => Members(cl_group[m]) \cap Members(cl_group[n]) = {}
        /\ \A n \in OverlapRange :
              Cardinality(Members(cl_group[n])) = Len(cl_group[n])
        /\ \A q \in 0..(Len(cloud.pts) - 1), r \in 0..(Len(cloud.pts) - 1) :
              Cardinality(IdsOf(q)) > 1 /\ Cardinality(IdsOf(r)) > 1 =>
                  ((\E n \in OverlapRange :
                        {q, r} \subseteq Members(cl_group[n]))
                      <=> IdsOf(q) = IdsOf(r))

\* two appended clusters, one of them of two points, and a point with one
\* id left in an original cluster
C20_Witness ==
    /\ Overlapped
    /\ Len(cl_group) = Len(frame.cl_group) + 2
    /\ \E n \in OverlapRange : Len(cl_group[n]) = 2
    /\ \E m \in OriginalRange : cl_group[m] # <<>>


(***************************************************************************)
(* Steps 3 and 4 of main and the labelling: compute_hc,                    *)
(* cleanup_cluster_group, cluster_triplets_to_points, the splitting at     *)
(* gaps and add_clusters, each with the actions above, in the order main   *)
(* calls them.  The cloud is cloud_xyz; the triplets are those of points   *)
(* of the smoothed cloud lying where the points of cloud_xyz lie.          *)
(***************************************************************************)
MaxPipeTriplets == 3

\* four points on the x axis, the last behind a gap, and two above the
\* second
PipePositions ==
    <<<<0, 0, 0>>, <<1, 0, 0>>, <<2, 0, 0>>, <<6, 0, 0>>, <<1, 1, 0>>,
      <<1, 2, 0>>>>

PipeClouds ==
    {[pts |-> [j \in 1..Len(PipePositions) |-> PointAt(PipePositions[j], j - 1)],
      cap |-> Len(PipePositions), points2d |-> FALSE, ordered |-> FALSE]}

\* the points a, b, c of the triplets: two along x, one along y
PipePoints == {<<0, 1, 2>>, <<1, 2, 3>>, <<1, 4, 5>>}

PipeTriplet(points, p) ==
    NewTriplet(points[p[2] + 1], p[2],
               KdNode(points[p[1] + 1], p[1], points[p[1] + 1].index),
               KdNode(points[p[3] + 1], p[3], points[p[3] + 1].index))

\* sequences of at most MaxPipeTriplets triplets, none of them twice
PipeSequences(points) ==
    {q \in UNION {SequencesOver({PipeTriplet(points, p) : p \in PipePoints}, len) :
                     len \in 0..MaxPipeTriplets} :
        \A i \in 1..Len(q), j \in 1..Len(q) : i # j => q[i] # q[j]}

PipelineInit ==
    /\ pc = "compute_hc"
    /\ cloud \in PipeClouds
    /\ tree = <<>>
    /\ triplets \in PipeSequences(cloud.pts)
    /\ TripletsGiven
    /\ cl_group = <<>>
    /\ opt_params \in {o \in HcOptions :
            /\ o.s = One /\ o.linkage = "SINGLE"
            /\ o.tauto => o.t = One
            /\ o.t # Two}
    /\ frame = HcFrame
    /\ SmoothIdle
    /\ MetricIdle

PipelineNext ==
    \/ HcNoTriplets
    \/ HcDistances
    \/ HcMerge
    \/ HcCut
    \/ CleanupEnter
    \/ CleanupStep
    \/ CleanupReturn
    \/ ProjEnter
    \/ ProjCluster
    \/ ProjReturn
    \/ GapsRequested
    \/ GapsNotRequested
    \/ MaxStepCall
    \/ MaxStepRemove
    \/ MaxStepComponent
    \/ MaxStepReturn
    \/ GapsAssign
    \/ AddClustersEnter
    \/ AddClustersIds
    \/ AddClustersReturn
    \/ AddClustersGnuplot
    \/ AddClustersVertex
    \/ AddClustersExtend

PipelineSpec == PipelineInit /\ [][PipelineNext]_vars

(***************************************************************************)
(* Properties of the pipeline.                                             *)
(***************************************************************************)
\* the triplet indices
TripletIndices == 0..(Len(triplets) - 1)

\* C14: with no triplet compute_hc returns at once and leaves the group of
\* clusters empty, and at the end of the pipeline the group is empty and
\* no point has a cluster id (every point is noise); with one triplet
\* compute_hc yields exactly one cluster, of the triplet index 0, without
\* any merge, with the fixed and with the automatic cut.
C14_DegenerateTripletCounts ==
    /\ Len(triplets) = 0 =>
          /\ pc # "hclust_fast"
          /\ frame.function = "compute_hc" => frame = HcFrame
          /\ cl_group = <<>>
          /\ \A j \in 1..Len(cloud.pts) : cloud.pts[j].cluster_ids = {}
    /\ Len(triplets) = 1 /\ Clustered =>
          /\ cl_group = <<<<0>>>>
          /\ frame.merge = <<>>
          /\ frame.k = 0

\* the pipeline is over for a cloud of points without triplets
C14_Witness ==
    /\ Len(triplets) = 0
    /\ pc = "output"
    /\ frame.function = "add_clusters"
    /\ Len(cloud.pts) > 0
    /\ \A j \in 1..Len(cloud.pts) : cloud.pts[j].cluster_ids = {}

\* cleanup_cluster_group has returned
Cleaned ==
    pc = "cluster_triplets_to_points" /\ frame.function = "cleanup_cluster_group"

\* a group of clusters of triplet indices, as compute_hc leaves it: empty,
\* or every triplet index in exactly one cluster
OfTriplets(group) ==
    /\ \A c \in 1..Len(group) : Members(group[c]) \subseteq TripletIndices
    /\ group # <<>> =>
          \A i \in TripletIndices :
              Cardinality({c \in 1..Len(group) : i \in Members(group[c])}) = 1

\* C16: cleanup_cluster_group removes exactly the clusters of fewer than m
\* elements (a cluster of exactly m elements stays) and leaves the others
\* as they were and in their order; main applies it to the clusters of
\* triplet indices that compute_hc made, and the projection to points gets
\* the clusters that are left, so that m counts triplets.
C16_CleanupBeforeProjection ==
    /\ Cleaned =>
          /\ frame.m = opt_params.m
          /\ OfTriplets(frame.cl_group)
          /\ cl_group = SelectSeq(frame.cl_group,
                                  LAMBDA c : ~(Len(c) < opt_params.m))
    /\ frame.function = "cluster_triplets_to_points" =>
          /\ \A c \in 1..Len(frame.cl_group) :
                /\ Len(frame.cl_group[c]) >= opt_params.m
                /\ Members(frame.cl_group[c]) \subseteq TripletIndices
          /\ Len(cl_group) = Len(frame.cl_group)

\* a cluster of one triplet was removed and a cluster of exactly m = 2
\* triplets was kept
C16_Witness ==
    /\ Cleaned
    /\ opt_params.m = 2
    /\ \E c \in 1..Len(frame.cl_group) : Len(frame.cl_group[c]) = 1
    /\ \E c \in 1..Len(cl_group) : Len(cl_group[c]) = 2

(***************************************************************************)
(* clusters_to_csv (output.cpp).  What is written to std::cout is kept in  *)
(* the frame as a sequence: the header, then one row per point; a row is   *)
(* the sequence of its coordinates and of its label, and a label is the    *)
(* sequence of the numbers and separators written.                         *)
(***************************************************************************)
CsvHeader == "# Comment: curveID -1 represents noise\n# x, y, z, curveID\n"

\* the ids of a std::set as its iterator gives them
RECURSIVE Joined(_)
Joined(ids) ==
    IF Len(ids) <= 1 THEN ids
    ELSE <<ids[1], ";">> \o Joined(Tail(ids))

\* the label that would name only the first id of a point
CsvLabelFirstId(cluster_ids) ==
    IF cluster_ids = {} THEN <<-1>>
    ELSE <<Ascending(cluster_ids)[1]>>

\* the label of a point: -1 for noise, or its ids with ';' between them
CsvLabel(cluster_ids) ==
    IF cluster_ids = {} THEN <<-1>>
    ELSE Joined(Ascending(cluster_ids))

CsvRow(p, is2d) ==
    [coordinates |-> IF is2d THEN <<p.x, p.y>> ELSE <<p.x, p.y, p.z>>,
     label |-> CsvLabel(p.cluster_ids)]

\* main calls clusters_to_csv(cloud_xyz); the header is written
CsvEnter ==
    /\ pc = "output"
    /\ frame.function # "clusters_to_csv"
    /\ frame' = [function |-> "clusters_to_csv", it |-> 0,
                 is2d |-> cloud.points2d, cout |-> <<CsvHeader>>]
    /\ UNCHANGED <<pc, cloud, tree, opt_params, cl_group, smoothVars,
                   tripletVars, metricVars>>

\* one turn of the loop over the points
CsvPoint ==
    /\ pc = "output"
    /\ frame.function = "clusters_to_csv"
    /\ frame.it < Len(cloud.pts)
    /\ frame' = [frame EXCEPT
                    !.it = @ + 1,
                    !.cout = Append(@, CsvRow(cloud.pts[frame.it + 1],
                                              frame.is2d))]
    /\ UNCHANGED <<pc, cloud, tree, opt_params, cl_group, smoothVars,
                   tripletVars, metricVars>>

\* clusters_to_csv returns and main returns 0
CsvReturn ==
    /\ pc = "output"
    /\ frame.function = "clusters_to_csv"
    /\ frame.it = Len(cloud.pts)
    /\ pc' = "return_0"
    /\ UNCHANGED <<cloud, tree, smoothVars, tripletVars, metricVars, clusterVars>>

(***************************************************************************)
(* Inputs of clusters_to_csv: clouds of at most MaxCsvPoints points with   *)
(* any sets of ids below MaxCsvIds.                                        *)
(***************************************************************************)
MaxCsvPoints == 3

MaxCsvIds == 3

CsvClouds ==
    UNION {
      {[pts |-> [j \in 1..m |->
                   [PointAt(<<j, 2 * j, 0>>, j - 1) EXCEPT !.cluster_ids = ids[j]]],
        cap |-> m, points2d |-> is2d, ordered |-> FALSE] :
          ids \in [1..m -> SUBSET (0..(MaxCsvIds - 1))], is2d \in BOOLEAN}
      : m \in 1..MaxCsvPoints}

CsvInit ==
    /\ pc = "output"
    /\ cloud \in CsvClouds
    /\ tree = <<>>
    /\ SmoothIdle
    /\ TripletIdle
    /\ MetricIdle
    /\ ClusterIdle

CsvNext == CsvEnter \/ CsvPoint \/ CsvReturn

CsvSpec == CsvInit /\ [][CsvNext]_vars

(***************************************************************************)
(* Properties of clusters_to_csv.                                          *)
(***************************************************************************)
CsvWritten == pc = "return_0" /\ frame.function = "clusters_to_csv"

\* the row written for the point at position j
RowOf(j) == frame.cout[j + 1]

\* the id of ids with n smaller ids in ids
IdOfRank(ids, n) ==
    CHOOSE i \in ids : Cardinality({h \in ids : h < i}) = n

\* C21: in the CSV output a point is written with the label -1 iff its id
\* set is empty; every other point is written with all the ids of its id
\* set, ascending, separated by ';'; there is exactly one row per point, in
\* the order of the cloud.
C21_CsvLabels ==
    CsvWritten =>
        /\ Len(frame.cout) = Len(cloud.pts) + 1
        /\ \A j \in 1..Len(cloud.pts) :
              LET p == cloud.pts[j]
                  label == RowOf(j).label
                  n == Cardinality(p.cluster_ids)
              IN  /\ RowOf(j).coordinates[1] = p.x
                  /\ RowOf(j).coordinates[2] = p.y
                  /\ label = <<-1>> <=> p.cluster_ids = {}
                  /\ p.cluster_ids # {} =>
                        /\ Len(label) = 2 * n - 1
                        /\ \A h \in 1..n :
                              label[2 * h - 1] = IdOfRank(p.cluster_ids, h - 1)
                        /\ \A h \in 1..(n - 1) : label[2 * h] = ";"

\* a noise point, a point of one cluster and a point of three were written
C21_Witness ==
    /\ CsvWritten
    /\ \E j \in 1..Len(cloud.pts) : RowOf(j).label = <<-1>>
    /\ \E j \in 1..Len(cloud.pts) : Len(RowOf(j).label) = 1
                                     /\ RowOf(j).label # <<-1>>
    /\ \E j \in 1..Len(cloud.pts) : Len(RowOf(j).label) = 5

(***************************************************************************)
(* The options (option.cpp) and the characteristic length (dnn.cpp, and    *)
(* main.cpp 101-113).                                                      *)
(***************************************************************************)
\* Opt::Opt(): the default values
Opt ==
    [r |-> Two, rdnn |-> TRUE,
     k |-> 19, n |-> 2, a |-> FDiv(FromInt(3), FromInt(100)),
     s |-> FDiv(FromInt(3), FromInt(10)), sdnn |-> TRUE,
     t |-> Zero, tauto |-> TRUE,
     dmax |-> Zero, is_dmax |-> FALSE, dmax_dnn |-> FALSE,
     ordered |-> FALSE, linkage |-> "SINGLE", m |-> 5, gnuplot |-> FALSE]

\* the test that would look at the radius only
needs_dnnRadiusOnly(opt) == opt.rdnn

\* Opt::needs_dnn
needs_dnn(opt) == opt.rdnn \/ opt.sdnn \/ opt.dmax_dnn

\* Opt::set_dnn
set_dnn(opt, dnn) ==
    [opt EXCEPT !.r = IF opt.rdnn THEN FMul(@, dnn) ELSE @,
                !.s = IF opt.sdnn THEN FMul(@, dnn) ELSE @,
                !.dmax = IF opt.dmax_dnn THEN FMul(@, dnn) ELSE @]

\* the nodes compute_mean_square_distance builds its kd-tree from
DnnNodes(cl) == [j \in 1..Len(cl.pts) |-> KdNode(as_vector(cl.pts[j]), 0, 0)]

\* the mean over the k nearest neighbours that would keep the distance of
\* the point to itself
MeanSquareDistanceWithSelf(kdtree, point, k) ==
    LET squared_distances ==
            k_nearest_neighbors(kdtree, as_vector(point), k + 1).distances
    IN  FDiv(Accumulate(squared_distances, Zero),
             FromInt(Len(squared_distances)))

\* the loop body of compute_mean_square_distance: the mean of the squared
\* distances of the k + 1 nearest nodes without the first
MeanSquareDistance(kdtree, point, k) ==
    LET squared_distances ==
            Tail(k_nearest_neighbors(kdtree, as_vector(point), k + 1).distances)
    IN  FDiv(Accumulate(squared_distances, Zero),
             FromInt(Len(squared_distances)))

\* the orders of the elements of S
RECURSIVE Orders(_)
Orders(S) ==
    IF S = {} THEN {<<>>}
    ELSE UNION {{<<e>> \o rest : rest \in Orders(S \ {e})} : e \in S}

\* std::nth_element: any rearrangement with the element of position nth
\* (0-based) where sorting would put it, nothing greater before it and
\* nothing smaller after it
nth_element(msd, nth) ==
    LET all == 1..Len(msd)
        splits == {pl \in all \X SUBSET all :
                     /\ pl[1] \notin pl[2]
                     /\ Cardinality(pl[2]) = nth
                     /\ \A j \in pl[2] : ~FLt(msd[pl[1]], msd[j])
                     /\ \A j \in all \ (pl[2] \cup {pl[1]}) :
                           ~FLt(msd[j], msd[pl[1]])}
    IN  UNION {{[j \in all |-> msd[(lo \o <<pl[1]>> \o hi)[j]]] :
                   lo \in Orders(pl[2]),
                   hi \in Orders(all \ (pl[2] \cup {pl[1]}))} :
                 pl \in splits}

\* if (opt_params.needs_dnn()), taken: first_quartile is called
DnnNeeded ==
    /\ pc = "needs_dnn"
    /\ needs_dnn(opt_params)
    /\ pc' = "first_quartile"
    /\ tree' = DnnNodes(cloud)
    /\ frame' = [function |-> "first_quartile", i |-> 0, msd |-> <<>>,
                 q1 |-> 0, dnn |-> Zero]
    /\ UNCHANGED <<cloud, opt_params, cl_group, smoothVars, tripletVars,
                   metricVars>>

\* if (opt_params.needs_dnn()), not taken; main goes on to
\* smoothen_cloud(cloud_xyz, cloud_xyz_smooth, opt_params.get_r())
DnnNotNeeded ==
    /\ pc = "needs_dnn"
    /\ ~needs_dnn(opt_params)
    /\ smooth_r' = opt_params.r
    /\ pc' = "smoothen_cloud"
    /\ UNCHANGED <<cloud, tree, result_cloud, result_pre, smooth_i, queries,
                   tripletVars, metricVars, clusterVars>>

\* one turn of the loop of compute_mean_square_distance
DnnPoint ==
    /\ pc = "first_quartile"
    /\ frame.i < Len(cloud.pts)
    /\ frame' = [frame EXCEPT
                    !.i = @ + 1,
                    !.msd = Append(@, MeanSquareDistance(
                                          tree, cloud.pts[frame.i + 1], 1))]
    /\ UNCHANGED <<pc, cloud, tree, opt_params, cl_group, smoothVars,
                   tripletVars, metricVars>>

\* the selection of first_quartile and the square root in main
DnnQuartile ==
    /\ pc = "first_quartile"
    /\ frame.i = Len(cloud.pts)
    /\ LET q1 == Len(frame.msd) \div 4
       IN  \E msd \in nth_element(frame.msd, q1) :
              frame' = [frame EXCEPT !.msd = msd, !.q1 = q1,
                                     !.dnn = FSqrt(msd[q1 + 1])]
    /\ pc' = "set_dnn"
    /\ tree' = <<>>
    /\ UNCHANGED <<cloud, opt_params, cl_group, smoothVars, tripletVars,
                   metricVars>>

\* set_dnn, and dnn == 0.0: main returns 3
DnnZero ==
    /\ pc = "set_dnn"
    /\ FEq(frame.dnn, Zero)
    /\ opt_params' = set_dnn(opt_params, frame.dnn)
    /\ pc' = "return_3"
    /\ UNCHANGED <<cloud, tree, cl_group, frame, smoothVars, tripletVars,
                   metricVars>>

\* set_dnn, and dnn is not 0.0: main goes on to
\* smoothen_cloud(cloud_xyz, cloud_xyz_smooth, opt_params.get_r())
DnnSet ==
    /\ pc = "set_dnn"
    /\ ~FEq(frame.dnn, Zero)
    /\ opt_params' = set_dnn(opt_params, frame.dnn)
    /\ smooth_r' = opt_params'.r
    /\ pc' = "smoothen_cloud"
    /\ UNCHANGED <<cloud, tree, cl_group, frame, result_cloud, result_pre,
                   smooth_i, queries, tripletVars, metricVars>>

(***************************************************************************)
(* Inputs of the characteristic length: clouds of at most MaxDnnPoints     *)
(* points on a line, and the options that name r, s and dmax as numbers    *)
(* or as multiples of dnn.                                                 *)
(***************************************************************************)
MaxDnnPoints == 4

DnnPositions == {<<0, 0, 0>>, <<1, 0, 0>>, <<3, 0, 0>>}

\* eight points on a line: all apart, two of them twins, four of them twins
DnnLongPositions ==
    {<<0, 1, 3, 6, 10, 15, 21, 28>>, <<28, 3, 21, 0, 15, 6, 1, 10>>,
     <<0, 0, 1, 3, 6, 10, 15, 21>>, <<0, 6, 1, 0, 1, 3, 10, 15>>}

DnnClouds ==
    UNION {
      {[pts |-> [j \in 1..m |-> PointAt(ps[j], j - 1)], cap |-> m,
        points2d |-> FALSE, ordered |-> FALSE] :
          ps \in [1..m -> DnnPositions]}
      : m \in 1..MaxDnnPoints}
    \cup {[pts |-> [j \in 1..Len(xs) |-> PointAt(<<xs[j], 0, 0>>, j - 1)],
           cap |-> Len(xs), points2d |-> FALSE, ordered |-> FALSE] :
             xs \in DnnLongPositions}

DnnOptions ==
    {[Opt EXCEPT !.rdnn = rdnn, !.s = One, !.sdnn = sdnn, !.dmax = dmax[1],
                 !.is_dmax = dmax[2], !.dmax_dnn = dmax[3]] :
        rdnn \in BOOLEAN, sdnn \in BOOLEAN,
        dmax \in {<<Zero, FALSE, FALSE>>, <<Two, TRUE, FALSE>>,
                  <<Two, TRUE, TRUE>>}}

DnnInit ==
    /\ pc = "needs_dnn"
    /\ cloud \in DnnClouds
    /\ tree = <<>>
    /\ opt_params \in DnnOptions
    /\ cl_group = <<>>
    /\ frame = NoFrame
    /\ SmoothIdle
    /\ TripletIdle
    /\ MetricIdle

DnnNext ==
    \/ DnnNeeded
    \/ DnnNotNeeded
    \/ DnnPoint
    \/ DnnQuartile
    \/ DnnZero
    \/ DnnSet

DnnSpec == DnnInit /\ [][DnnNext]_vars

(***************************************************************************)
(* Properties of the characteristic length.                                *)
(***************************************************************************)
\* first_quartile has returned
Quartiled == frame.function = "first_quartile" /\ pc \notin {"first_quartile"}

\* the squared distances from the point at position j to the other points
OtherDistances(j) ==
    {SqDist(as_vector(cloud.pts[t]), as_vector(cloud.pts[j])) :
        t \in (1..Len(cloud.pts)) \ {j}}

\* the squared distance from the point at position j to its nearest other
\* point
NearestOther(j) ==
    CHOOSE d \in OtherDistances(j) : \A e \in OtherDistances(j) : ~FLt(e, d)

\* v is the element of 0-based rank n of the values m[j] in ascending order
HasRank(v, n) ==
    /\ \E j \in 1..Len(cloud.pts) : NearestOther(j) = v
    /\ Cardinality({j \in 1..Len(cloud.pts) : FLt(NearestOther(j), v)}) <= n
    /\ Cardinality({j \in 1..Len(cloud.pts) : FLe(NearestOther(j), v)}) > n

\* the points that have a coincident twin
Twins ==
    {j \in 1..Len(cloud.pts) :
        \E t \in (1..Len(cloud.pts)) \ {j} :
            as_vector(cloud.pts[t]) = as_vector(cloud.pts[j])}

\* C25: for a cloud of N >= 2 points first_quartile returns the element of
\* 0-based rank floor(N/4) in ascending order of the values m[i], the
\* squared distance from point i to its nearest other point; when at least
\* floor(N/4) + 1 points have a coincident twin it returns 0.
C25_FirstQuartile ==
    Quartiled /\ Len(cloud.pts) >= 2 =>
        LET returned == frame.msd[frame.q1 + 1]
        IN  /\ frame.q1 = Len(cloud.pts) \div 4
            /\ HasRank(returned, Len(cloud.pts) \div 4)
            /\ Cardinality(Twins) >= Len(cloud.pts) \div 4 + 1 =>
                  returned = Zero

\* eight points: the value of rank 2 is returned, which is neither the
\* least nor the greatest
C25_Witness ==
    /\ Quartiled
    /\ frame.q1 = 2
    /\ \E j \in 1..Len(cloud.pts) :
          FLt(NearestOther(j), frame.msd[frame.q1 + 1])
    /\ \E j \in 1..Len(cloud.pts) :
          FLt(frame.msd[frame.q1 + 1], NearestOther(j))

\* the characteristic length of the cloud is 0: more than floor(N/4) points
\* have a twin
ZeroLength == Cardinality(Twins) > Len(cloud.pts) \div 4

\* r, s or dmax is a multiple of dnn
DependsOnDnn == opt_params.rdnn \/ opt_params.sdnn \/ opt_params.dmax_dnn

\* the steps of main up to the test of dnn
BeforeSmoothing == {"needs_dnn", "first_quartile", "set_dnn", "return_3"}

\* C22 as it is stated: an input whose characteristic length is 0 makes
\* the run fail with an error status before any smoothing, for every
\* configuration of r, s and dmax.
C22_ZeroLengthAlwaysFails ==
    ZeroLength => pc \in BeforeSmoothing

\* C22, amended: when r, s or dmax is given as a multiple of dnn, an input
\* whose characteristic length is 0 makes main return 3 before smoothing,
\* triplet generation, clustering and output, and main returns 3 for no
\* other input; when none of them is a multiple of dnn the characteristic
\* length is not computed and the run goes on to the smoothing.
C22_ZeroLengthFailsWhenNeeded ==
    /\ ZeroLength /\ DependsOnDnn => pc \in BeforeSmoothing
    /\ pc = "return_3" =>
          /\ ZeroLength /\ DependsOnDnn
          /\ result_cloud.pts = <<>> /\ triplets = <<>> /\ cl_group = <<>>
          /\ \A j \in 1..Len(cloud.pts) : cloud.pts[j].cluster_ids = {}
    /\ ~DependsOnDnn =>
          pc \in {"needs_dnn", "smoothen_cloud"} /\ frame = NoFrame

\* main has returned 3 for a cloud with twins although only s is a
\* multiple of dnn
C22_Witness ==
    /\ pc = "return_3"
    /\ ZeroLength
    /\ ~opt_params.rdnn /\ opt_params.sdnn /\ ~opt_params.dmax_dnn

(***************************************************************************)
(* The order of candidates of equal error.                                 *)
(***************************************************************************)
\* the candidates of a midpoint sorted by error with candidates of equal
\* error left in the order they were generated in
StableSorted(cands) ==
    LET before(c, d) == \/ TripletLess(cands[c], cands[d])
                        \/ ~TripletLess(cands[d], cands[c]) /\ c < d
        rank(d) == Cardinality({c \in DOMAIN cands : before(c, d)})
    IN  [p \in 1..Len(cands) |->
            cands[CHOOSE d \in DOMAIN cands : rank(d) = p - 1]]

\* C26: among the candidates of a midpoint that have equal error,
\* generate_triplets keeps and emits them in the order the two loops
\* generated them, as a stable sort by error does: when more than n
\* candidates tie, those generated first are emitted.
C26_TiesInTraversalOrder ==
    \A b \in 0..(point_index_b - 1) :
        pc \in {"generate_loop", "generated"} =>
            EmittedFor(b) =
                SubSeq(StableSorted(candidates[b + 1]), 1,
                       Min(trip_n, Len(candidates[b + 1])))

\* the cluster group is handed to add_clusters
HandedOver == pc = "add_clusters" /\ frame.function # "add_clusters"

\* C24: when is_dmax is false the splitting at gaps is skipped whatever
\* dmax is: max_step is never entered and the group handed to add_clusters
\* is the projection to points of the clusters of at least m triplets;
\* and the result of compute_hc is determined by the triplets and by s, t,
\* tauto and the linkage alone: the distances, the merges, the cut and the
\* clusters are those values' functions, with no part for dmax or is_dmax.
C24_GapsSkipped ==
    /\ ~opt_params.is_dmax =>
          /\ pc # "max_step" /\ frame.function # "max_step"
          /\ HandedOver =>
                /\ frame.function = "cluster_triplets_to_points"
                /\ Len(cl_group) = Len(frame.cl_group)
                /\ \A c \in 1..Len(cl_group) :
                      /\ Len(frame.cl_group[c]) >= opt_params.m
                      /\ Members(cl_group[c]) = PointsOfTriplets(frame.cl_group[c])
                      /\ StrictlyAscending(cl_group[c])
    /\ Clustered /\ triplets # <<>> =>
          /\ frame.distance_matrix =
                calculate_distance_matrix(triplets, opt_params.s)
          /\ \A i \in 1..Len(frame.merge) :
                frame.merge[i] \in
                    NextMerges(opt_params.linkage, frame.distance_matrix,
                               Len(triplets),
                               ClustersAfter(frame.merge, Len(triplets), i - 1))
          /\ opt_params.tauto =>
                \E before \in Garbage :
                    frame.k = AutomaticCut(frame.cdists, Len(triplets),
                                           (Len(triplets) - 1) \div 2, before)
          /\ frame.labels = cutree_k(Len(triplets), frame.merge,
                                     Len(triplets) - frame.k)
          /\ ~opt_params.tauto =>
                frame.k = FixedCut(frame.cdists, Len(triplets), 0, opt_params.t)
          /\ cl_group = GenerateClusters(<<>>, Len(triplets),
                                         Len(triplets) - frame.k, frame.labels)

\* a cluster with a gap wider than dmax is handed to add_clusters as it is
C24_Witness ==
    /\ HandedOver
    /\ ~opt_params.is_dmax /\ opt_params.dmax = One
    /\ \E c \in 1..Len(cl_group) : {2, 3} \subseteq Members(cl_group[c])

(***************************************************************************)
(* The components of max_step before the test of their size.               *)
(***************************************************************************)
\* the connected components max_step found in its latest call
FoundComponents == {frame.new_cluster[j] : j \in 1..Len(frame.new_cluster)}

\* the squared distance of the points of the indices p and q
SquaredDistance(p, q) ==
    squared_norm(VSub(cloud.pts[q + 1], cloud.pts[p + 1]))

\* the points of the cluster that a chain from a point in S reaches when
\* consecutive points of the chain have squared distance at most dmax^2
RECURSIVE Chained(_)
Chained(S) ==
    LET T == S \cup {q \in Members(frame.cluster) :
                        \E p \in S : ~FGt(SquaredDistance(p, q), Dmax2)}
    IN  IF T = S THEN S ELSE Chained(T)

\* the connected components of the threshold graph on the cluster
ThresholdComponents == {Chained({p}) : p \in Members(frame.cluster)}

\* C30: the components max_step finds, before the test of their size, are
\* the connected components of the graph on the cluster's points that has
\* an edge wherever the squared distance is at most dmax^2, in whatever
\* order the edges of equal weight were sorted; every component is free of
\* duplicates, no point is in two of them and every point is in one.
C30_ThresholdComponents ==
    MaxStepReturned =>
        /\ {Members(c) : c \in FoundComponents} = ThresholdComponents
        /\ Cardinality(FoundComponents) = Len(frame.new_cluster)
        /\ Cardinality(FoundComponents) = Cardinality(ThresholdComponents)
        /\ \A c \in FoundComponents : Cardinality(Members(c)) = Len(c)
        /\ \A c, d \in FoundComponents :
              c # d => Members(c) \cap Members(d) = {}
        /\ UNION {Members(c) : c \in FoundComponents} = Members(frame.cluster)

\* a call with two tree edges of one weight that found a component of
\* several points and a component too small to be returned
C30_Witness ==
    /\ MaxStepReturned
    /\ \E i, j \in 1..Len(frame.mst) :
          i # j /\ FEq(frame.mst[i].weight, frame.mst[j].weight)
    /\ \E c, d \in FoundComponents :
          /\ Len(c) >= 3
          /\ Len(d) < frame.min_size
          /\ d \notin EmittedClusters

\* C29: for every |T| >= 1, in both modes of the cut and at every level of
\* verbosity, every read of cdists in compute_hc is at an index in
\* [0, |T| - 2] and sd is never called with fewer than two values.
C29_CdistsReadsInRange ==
    (Clustered /\ Len(triplets) >= 1) =>
        /\ frame.reads \subseteq 0..(Len(triplets) - 2)
        /\ \A m \in frame.sd : m >= 2

(***************************************************************************)
(* The run of main from the loaded cloud to its return (main.cpp 101-180). *)
(* cloud is cloud_xyz and result_cloud is cloud_xyz_smooth: the triplets   *)
(* are generated of cloud_xyz_smooth, max_step and add_clusters get        *)
(* cloud_xyz.                                                              *)
(***************************************************************************)
\* generate_triplets(cloud_xyz_smooth, triplets, k, n, a): build kdtree
MainGenerateBuild ==
    /\ pc = "smoothed"
    /\ trip_k' = opt_params.k
    /\ trip_n' = opt_params.n
    /\ trip_a' = opt_params.a
    /\ tree' = TripletNodes(result_cloud)
    /\ point_index_b' = 0
    /\ pc' = "triplets_loop"
    /\ UNCHANGED <<cloud, triplets, candidates, smoothVars, metricVars,
                   clusterVars>>

\* the loop body for the midpoint cloud_xyz_smooth[point_index_b]
MainGenerateMidpoint ==
    /\ pc = "triplets_loop"
    /\ point_index_b < Len(result_cloud.pts)
    /\ LET cands == triplet_candidates(result_cloud, tree, trip_k, trip_a,
                                       point_index_b)
       IN  /\ candidates' = Append(candidates, cands)
           /\ \E best \in BestCandidates(cands, trip_n) :
                 triplets' = triplets \o best
    /\ point_index_b' = point_index_b + 1
    /\ UNCHANGED <<pc, cloud, tree, trip_k, trip_n, trip_a, smoothVars,
                   metricVars, clusterVars>>

\* generate_triplets returns and main calls compute_hc
MainGenerateReturn ==
    /\ pc = "triplets_loop"
    /\ point_index_b = Len(result_cloud.pts)
    /\ pc' = "compute_hc"
    /\ frame' = HcFrame
    /\ UNCHANGED <<cloud, tree, opt_params, cl_group, tripletVars, smoothVars,
                   metricVars>>

(***************************************************************************)
(* Inputs of the run: clouds as load_csv_file leaves them (the indices     *)
(* count the points from 0, the flag ordered is what the constructor left  *)
(* in it) and options as parse_args leaves them.                           *)
(***************************************************************************)
\* a line, a line with a gap, a corner, and a line with two twins
MainPositions ==
    {<<<<0, 0, 0>>, <<1, 0, 0>>, <<2, 0, 0>>, <<3, 0, 0>>>>,
     <<<<0, 0, 0>>, <<1, 0, 0>>, <<2, 0, 0>>, <<6, 0, 0>>>>,
     <<<<0, 0, 0>>, <<1, 0, 0>>, <<2, 0, 0>>, <<2, 1, 0>>, <<2, 2, 0>>>>,
     <<<<0, 0, 0>>, <<0, 0, 0>>, <<1, 0, 0>>, <<2, 0, 0>>>>}

MainClouds ==
    {[pts |-> [j \in 1..Len(ps) |-> PointAt(ps[j], j - 1)], cap |-> Len(ps),
      points2d |-> FALSE, ordered |-> o] :
        ps \in MainPositions, o \in BOOLEAN}

MainOptions ==
    {[Opt EXCEPT !.r = r[1], !.rdnn = r[2], !.n = n, !.s = One,
                 !.sdnn = FALSE, !.t = t[1], !.tauto = t[2],
                 !.dmax = dmax[1], !.is_dmax = dmax[2], !.dmax_dnn = dmax[3],
                 !.ordered = ordered, !.m = 1] :
        r \in {<<Zero, FALSE>>, <<One, FALSE>>, <<Two, TRUE>>},
        n \in 1..2,
        t \in {<<Zero, TRUE>>, <<One, FALSE>>},
        dmax \in {<<Zero, FALSE, FALSE>>, <<Two, TRUE, FALSE>>,
                  <<Two, TRUE, TRUE>>},
        ordered \in BOOLEAN}

MainInit ==
    /\ pc = "needs_dnn"
    /\ cloud \in MainClouds
    /\ tree = <<>>
    /\ opt_params \in MainOptions
    /\ cl_group = <<>>
    /\ frame = NoFrame
    /\ result_cloud \in NewClouds
    /\ result_pre = result_cloud
    /\ smooth_r = Zero /\ smooth_i = 0 /\ queries = 0
    /\ TripletIdle
    /\ MetricIdle

MainNext ==
    \/ DnnNeeded
    \/ DnnNotNeeded
    \/ DnnPoint
    \/ DnnQuartile
    \/ DnnZero
    \/ DnnSet
    \/ SmoothenCopy
    \/ SmoothenBuild
    \/ SmoothenPoint
    \/ SmoothenFinish
    \/ MainGenerateBuild
    \/ MainGenerateMidpoint
    \/ MainGenerateReturn
    \/ HcNoTriplets
    \/ HcDistances
    \/ HcMerge
    \/ HcCut
    \/ CleanupEnter
    \/ CleanupStep
    \/ CleanupReturn
    \/ ProjEnter
    \/ ProjCluster
    \/ ProjReturn
    \/ GapsRequested
    \/ GapsNotRequested
    \/ MaxStepCall
    \/ MaxStepRemove
    \/ MaxStepComponent
    \/ MaxStepReturn
    \/ GapsAssign
    \/ AddClustersEnter
    \/ AddClustersIds
    \/ AddClustersReturn
    \/ CsvEnter
    \/ CsvPoint
    \/ CsvReturn

MainSpec == MainInit /\ [][MainNext]_vars

(***************************************************************************)
(* Properties of the run.                                                  *)
(***************************************************************************)
\* generate_triplets is under way in main, or has just returned
MainGenerating ==
    \/ pc = "triplets_loop"
    \/ pc = "compute_hc" /\ frame.function = "compute_hc"

\* the index attribute of the point of cloud_xyz_smooth at a position
SmoothIndex(position) == result_cloud.pts[position + 1].index

\* C27: the option ordered controls the index filter of the generation of
\* triplets: when it is set the cloud given to generate_triplets is marked
\* ordered and every emitted triplet has a.index <= b.index <= c.index;
\* when it is not set the cloud is marked not ordered and the candidates
\* are those that no index test has touched.
C27_OrderedOptionControlsFilter ==
    MainGenerating =>
        /\ result_cloud.ordered = opt_params.ordered
        /\ opt_params.ordered =>
              \A j \in 1..Len(triplets) :
                  /\ SmoothIndex(triplets[j].point_index_a)
                        <= SmoothIndex(triplets[j].point_index_b)
                  /\ SmoothIndex(triplets[j].point_index_b)
                        <= SmoothIndex(triplets[j].point_index_c)
        /\ ~opt_params.ordered =>
              \A b \in 0..(Len(candidates) - 1) :
                  candidates[b + 1] =
                      triplet_candidates(Unindexed(result_cloud),
                                         TripletNodes(Unindexed(result_cloud)),
                                         trip_k, trip_a, b)

\* the triplet sequences generate_triplets can return for the cloud cl from
\* the midpoint b on
RECURSIVE TripletsFrom(_, _, _)
TripletsFrom(cl, kdtree, b) ==
    IF b >= Len(cl.pts) THEN {<<>>}
    ELSE {best \o rest :
            best \in BestCandidates(
                        triplet_candidates(cl, kdtree, trip_k, trip_a, b),
                        trip_n),
            rest \in TripletsFrom(cl, kdtree, b + 1)}

\* C23: the run is deterministic: the triplet sequence of a run is the only
\* one that the input points and the configuration allow, whatever value
\* the flag that no code initialised held and whatever order the sort gave
\* to candidates of equal error.
C23_Deterministic ==
    (pc = "compute_hc" /\ frame.function = "compute_hc") =>
        \A o \in BOOLEAN :
            LET cl == [result_cloud EXCEPT !.ordered = o]
            IN  TripletsFrom(cl, TripletNodes(cl), 0) = {triplets}

\* the step of main that the control is in: the characteristic length,
\* smoothing, triplets, clustering, pruning, projection, splitting at
\* gaps, the ids, the output, and the return
Stage(at) ==
    CASE at \in {"needs_dnn", "first_quartile", "set_dnn", "return_3"} -> 0
      [] at \in {"smoothen_cloud", "smoothen_loop", "smoothed"} -> 1
      [] at = "triplets_loop" -> 2
      [] at \in {"compute_hc", "hclust_fast"} -> 3
      [] at = "cleanup_cluster_group" -> 4
      [] at = "cluster_triplets_to_points" -> 5
      [] at \in {"is_dmax", "max_step"} -> 6
      [] at = "add_clusters" -> 7
      [] at = "output" -> 8
      [] at = "return_0" -> 9

\* the points of a cloud without their sets of ids
WithoutIds(cl) ==
    [j \in 1..Len(cl.pts) |->
        [x |-> cl.pts[j].x, y |-> cl.pts[j].y, z |-> cl.pts[j].z,
         index |-> cl.pts[j].index]]

\* the positions in cloud_xyz_smooth that the triplets refer to
TripletPositionsUsed ==
    UNION {{triplets[j].point_index_a, triplets[j].point_index_b,
            triplets[j].point_index_c} : j \in 1..Len(triplets)}

\* C28: in a run the coordinates and the indices of the input cloud are
\* never modified; the cloud is written only in add_clusters, which comes
\* after the smoothing, the triplets, the clustering, the pruning, the
\* projection and (when is_dmax) the splitting at gaps, each step following
\* the one before it; and the ids are put on the points of the input cloud
\* at the positions of cloud_xyz_smooth that the triplets refer to.
C28_CloudReadOnlyUntilIds ==
    /\ [][/\ WithoutIds(cloud') = WithoutIds(cloud)
          /\ cloud' # cloud =>
                /\ pc = "add_clusters" /\ pc' = "add_clusters"
                /\ frame.function = "add_clusters"
          /\ Stage(pc') \in {Stage(pc), Stage(pc) + 1}
          /\ pc' = "max_step" => opt_params.is_dmax]_vars
    /\ [](Stage(pc) < 7 =>
             \A j \in 1..Len(cloud.pts) : cloud.pts[j].cluster_ids = {})
    /\ [](Stage(pc) > 7 =>
             /\ Len(result_cloud.pts) = Len(cloud.pts)
             /\ \A j \in 1..Len(cloud.pts) :
                   /\ cloud.pts[j].cluster_ids =
                         {i \in 0..(Len(cl_group) - 1) :
                             (j - 1) \in Members(cl_group[i + 1])}
                   /\ cloud.pts[j].cluster_ids # {} =>
                         (j - 1) \in TripletPositionsUsed)

\* a run that smoothed a point away from its place, split at gaps and
\* returned with ids on the points of the input cloud
C28_Witness ==
    /\ pc = "return_0"
    /\ opt_params.is_dmax
    /\ \E j \in 1..Len(cloud.pts) :
          as_vector(result_cloud.pts[j]) # as_vector(cloud.pts[j])
    /\ \E j \in 1..Len(cloud.pts) : cloud.pts[j].cluster_ids # {}
====
